---- MODULE Spec2Model ----
(***************************************************************************)
(* director-plan: the dependency graph's breadth-limited context query     *)
(* (context/ast.rs) and the execution pipeline's retry loop                *)
(* (execution_loop.rs), as state machines.                                 *)
(***************************************************************************)
EXTENDS Integers, Sequences, FiniteSets, TLC

\* ------------------------------------------------------------------------
\* Bounds of the model
\* ------------------------------------------------------------------------

\* At most this many edges in a dependency graph drawn by InitContext.
MaxEdges == 3

\* At most this many entries in the seed list passed to get_context.
MaxSeeds == 2

\* The largest retry budget (ticket.verification.max_retries) InitLoop draws.
MaxRetries == 2

\* ------------------------------------------------------------------------
\* State
\* ------------------------------------------------------------------------

VARIABLES
    edges,          \* DependencyGraph.graph: the set of (from, to) path pairs
    entry_files,    \* the seed list of the last get_context call
    visited,        \* get_context's visited map (path -> depth) when its loop ended
    results,        \* get_context's return value: sequence of <<path, content>>
    queried         \* whether get_context has been called

ctxVars == <<edges, entry_files, visited, results, queried>>

VARIABLES
    pc,               \* where run_with_handshake stands
    ticket,           \* the ticket's verification section: max_retries, command, golden_image
    command_exit,     \* how the verification command behaves: "zero", "nonzero" or "varies"
    tree,             \* the git working tree: modified tracked files and untracked files
    pre_tree,         \* the working tree when run_with_handshake was called
    head,             \* what HEAD points at: the branch "main" or "detached"
    attempts,         \* run_with_handshake's local `attempts`
    previous_errors,  \* run_with_handshake's local `previous_errors`
    success,          \* run_with_handshake's local `success`
    final_confidence, \* run_with_handshake's local `final_confidence`, in hundredths
    returned,         \* "none" while running, then "ok" or "err"
    result,           \* the ExecutionResult returned with Ok
    agent_runs,       \* number of agent subprocesses started
    verify_runs,      \* number of calls of verify()
    resets,           \* number of `git reset --hard` performed
    last_extracted,   \* the last value extract_confidence yielded in this run, or None
    prompts           \* the prompts generate_prompt returned in this run, one per iteration

loopVars == <<pc, ticket, command_exit, tree, pre_tree, head, attempts, previous_errors,
              success, final_confidence, returned, result, agent_runs, verify_runs,
              resets, last_extracted, prompts>>

VARIABLES
    workspace,      \* the files under the root: path -> what build reads of the file
    graph,          \* DependencyGraph.graph: node weights and edges, in insertion order
    node_index,     \* DependencyGraph.node_map: path -> index of its node
    builds          \* number of calls of build on this DependencyGraph

buildVars == <<workspace, graph, node_index, builds>>

VARIABLES
    src_path,       \* the path of the file a text was read from
    src_text,       \* the text read from it
    degraded,       \* prune_content(src_path, src_text), once computed
    degraded_twice, \* prune_content applied to that result, once computed
    extracted       \* the import list analyze_imports gets from the parser, once computed

sourceVars == <<src_path, src_text, degraded, degraded_twice, extracted>>

VARIABLES
    img_golden,     \* the golden image as ImageReader decodes it
    img_actual,     \* proof/actual.png as ImageReader decodes it
    visual,         \* what verify_visual returned: Err, or Ok with the report
    compared        \* number of pixel pairs verify_visual handed to pixels_match

visualVars == <<img_golden, img_actual, visual, compared>>

VARIABLES
    srv_files,      \* the files and directories under the server's workspace_root
    srv_ticket,     \* plan/tickets/T-TEST.toml as written on disk
    srv_request,    \* the last POST /api/tickets/<id>/verify: its id and how the command ran
    srv_response,   \* the answer to it
    srv_requests    \* number of verify requests handled

serverVars == <<srv_files, srv_ticket, srv_request, srv_response, srv_requests>>

VARIABLES
    w_pool_size,    \* Worker.pool_size
    w_run,          \* where Worker::run stands: "poll", "sleep" or "await" (in process_ticket)
    w_step,         \* per ticket, where process_ticket stands for it ("idle": not running)
    w_status,       \* per ticket, meta.status in plan/tickets/<id>.toml
    w_owner,        \* per ticket, meta.owner
    w_ignored,      \* whether git ignores plan/tickets
    w_dirty,        \* whether git status reports changes in the checkout
    w_head,         \* the branch the checkout is on
    w_branches,     \* the local branches
    w_result,       \* the ExecutionResult run_with_handshake returned last
    w_prs,          \* the tickets a pull request was created for
    w_returned,     \* per ticket, what process_ticket returned last: "none", "ok" or "err"
    w_min,          \* per ticket, verification.min_confidence, in hundredths
    w_path          \* per ticket, the way of its last process_ticket call: whether the
                    \* checkout was clean when it began, whether the agent was invoked,
                    \* and the statement it returned from

workerVars == <<w_pool_size, w_run, w_step, w_status, w_owner, w_ignored, w_dirty, w_head,
                w_branches, w_result, w_prs, w_returned, w_min, w_path>>

VARIABLES
    p_tokens,       \* number of tokens tokenize() makes of the ticket's description
    p_matches,      \* per file, how many tokens its name and how many its content contain
    p_spec,         \* ticket.spec: relevant_files and auto_context
    p_discovered,   \* what discover_context returned last
    p_context,      \* the files of the prompt's context section: <<path, content>> in order
    p_called        \* "none", or the caller that ran: "context" (the CLI) or "prompt"

promptVars == <<p_tokens, p_matches, p_spec, p_discovered, p_context, p_called>>

otherVars == <<sourceVars, visualVars, serverVars, workerVars, promptVars>>

vars == <<ctxVars, loopVars, buildVars, otherVars>>

\* Everything but one part's variables.
exceptSource == <<ctxVars, loopVars, buildVars, visualVars, serverVars, workerVars, promptVars>>
exceptVisual == <<ctxVars, loopVars, buildVars, sourceVars, serverVars, workerVars, promptVars>>
exceptServer == <<ctxVars, loopVars, buildVars, sourceVars, visualVars, workerVars, promptVars>>
exceptWorker == <<ctxVars, loopVars, buildVars, sourceVars, visualVars, serverVars, promptVars>>
exceptPrompt == <<ctxVars, loopVars, buildVars, sourceVars, visualVars, serverVars, workerVars>>

\* ------------------------------------------------------------------------
\* The workspace snapshot the graph was built from
\* ------------------------------------------------------------------------

\* DependencyGraph.node_map's keys: the relative paths of the scanned files.
node_map == {"a.ts", "b.ts", "c.rs", "d.png"}

\* The files fs::read_to_string fails on: d.png is not valid UTF-8.
Unreadable == {"d.png"}

\* A path that is no node of the graph (never scanned, or under an ignored directory).
NotANode == "x.ts"

\* The paths in String::cmp order, the order results.sort_by puts entries in.
PathOrder == <<"a.ts", "b.ts", "c.rs", "d.png", "x.ts">>

\* str::ends_with(".ts") || str::ends_with(".tsx") on the model's paths.
EndsWithTs(p) == p \in {"a.ts", "b.ts", "x.ts", "v.tsx"}

\* Number of lines content.lines().take(..) keeps for a non-TypeScript file.
PruneLines == 50

\* A lexeme of a source text: its kind and its characters.  The characters
\* of an import are its specifier, split at the path separator.  A text is
\* the sequence of its lexemes; a text that is no TypeScript is the
\* sequence of its lines (a Rust text holds one item per line).
Tok(t, s) == [t |-> t, s |-> s]

\* &content[from..to]
Slice(content, from, to) == SubSeq(content, from + 1, to)

\* A text of n lines, line i holding the numeral i.
Lines(n) == [i \in 1..n |-> Tok("line", <<ToString(i)>>)]

\* File contents on disk.
FileContent(p) ==
    CASE p = "a.ts" -> <<Tok("import", <<".", "b">>), Tok("trivia", <<" ">>),
                         Tok("function_head", <<"function f(): void ">>),
                         Tok("block_statements", <<"{ return; }">>)>>
      [] p = "b.ts" -> <<Tok("interface", <<"interface I { x: number }">>),
                         Tok("class_head", <<"class C ">>),
                         Tok("block_members", <<"{ m() { return 1; } }">>),
                         Tok("variable", <<"const c = new C();">>)>>
      [] p = "c.rs" -> Lines(2)
      [] OTHER      -> Lines(3)

\* ------------------------------------------------------------------------
\* The TypeScript parser (oxc) as ast.rs uses it
\* ------------------------------------------------------------------------

\* SourceType::from_path(..).with_typescript(true).with_module(true): the
\* grammar has JSX for a .tsx path and has none for a .ts path.
SourceType_from_path(path) == [jsx |-> path \in {"v.tsx", "dummy.tsx"}]

\* No source on an export, no specifier.
NoSource == <<>>

\* A statement of program.body: its kind, its span, the span of its body
\* (body_start = -1 when it has none) and the source it names.
Node(kind, start, end, body_start, body_end, source) ==
    [kind |-> kind, start |-> start, end |-> end,
     body_start |-> body_start, body_end |-> body_end, source |-> source]

\* The statement kind of a lexeme that is a whole statement.
StatementKind(t) ==
    CASE t = "import"             -> "ImportDeclaration"
      [] t = "export_all"         -> "ExportAllDeclaration"
      [] t = "export_from"        -> "ExportNamedDeclaration"
      [] t = "export_decl"        -> "ExportNamedDeclaration"
      [] t = "export_default"     -> "ExportDefaultDeclaration"
      [] t = "type_alias"         -> "TSTypeAliasDeclaration"
      [] t = "interface"          -> "TSInterfaceDeclaration"
      [] t = "variable"           -> "VariableDeclaration"
      [] t = "angle_assertion"    -> "VariableDeclaration"
      [] t = "function_signature" -> "FunctionDeclaration"
      [] t = "expression"         -> "ExpressionStatement"
      [] OTHER                    -> "None"

\* The lexemes that name a source.
HasSource(t) == t \in {"import", "export_all", "export_from"}

\* The blocks a function body may be, and those a class body may be: a
\* block holding only a comment is both.
FunctionBodies == {"block_statements", "block_comment"}
ClassBodies == {"block_members", "block_comment"}

\* Parser::parse from lexeme i on: the statements in source order, or
\* errors.  A declaration with an angle-bracket type assertion
\* (`const x = <T>y;`) is a statement of the grammar without JSX and an
\* unclosed element of the grammar with JSX.
RECURSIVE ParseStatements(_, _, _, _)
ParseStatements(content, i, source_type, body) ==
    IF i > Len(content) THEN [errors |-> FALSE, body |-> body]
    ELSE LET t    == content[i].t
             fail == [errors |-> TRUE, body |-> <<>>]
         IN  CASE t = "trivia" -> ParseStatements(content, i + 1, source_type, body)
               [] t = "angle_assertion" /\ source_type.jsx -> fail
               [] StatementKind(t) # "None" /\ ~(t = "angle_assertion" /\ source_type.jsx) ->
                    ParseStatements(content, i + 1, source_type,
                        Append(body, Node(StatementKind(t), i - 1, i, -1, -1,
                                          IF HasSource(t) THEN content[i].s ELSE NoSource)))
               [] t = "function_head" ->
                    IF i < Len(content) /\ content[i + 1].t \in FunctionBodies
                    THEN ParseStatements(content, i + 2, source_type,
                             Append(body, Node("FunctionDeclaration", i - 1, i + 1, i, i + 1, NoSource)))
                    ELSE fail
               [] t = "class_head" ->
                    IF i < Len(content) /\ content[i + 1].t \in ClassBodies
                    THEN ParseStatements(content, i + 2, source_type,
                             Append(body, Node("ClassDeclaration", i - 1, i + 1, i, i + 1, NoSource)))
                    ELSE fail
               [] t \in FunctionBodies ->
                    ParseStatements(content, i + 1, source_type,
                        Append(body, Node("BlockStatement", i - 1, i, -1, -1, NoSource)))
               [] OTHER -> fail

\* Parser::new(&allocator, content, source_type).parse()
Parse(content, source_type) == ParseStatements(content, 1, source_type, <<>>)

\* ------------------------------------------------------------------------
\* Import extraction (ast.rs: parse_ts_imports, parse_rs_imports)
\* ------------------------------------------------------------------------

\* A loop that collects the sources of import declarations only.
RECURSIVE TsImportLoopImportsOnly(_, _)
TsImportLoopImportsOnly(body, imports) ==
    IF body = <<>> THEN imports
    ELSE TsImportLoopImportsOnly(Tail(body),
             IF Head(body).kind = "ImportDeclaration"
             THEN Append(imports, Head(body).source) ELSE imports)

\* The `for stmt in program.body` loop of parse_ts_imports.
RECURSIVE TsImportLoop(_, _)
TsImportLoop(body, imports) ==
    IF body = <<>> THEN imports
    ELSE LET stmt == Head(body)
         IN  TsImportLoop(Tail(body),
                 IF stmt.kind \in {"ImportDeclaration", "ExportAllDeclaration"}
                 THEN Append(imports, stmt.source)
                 ELSE IF stmt.kind = "ExportNamedDeclaration" /\ stmt.source # NoSource
                 THEN Append(imports, stmt.source)
                 ELSE imports)

\* An extraction that hands out the imports read before the syntax error.
parse_ts_imports_lenient(path, content) ==
    LET read == SelectSeq(content, LAMBDA k : HasSource(k.t))
    IN  [i \in 1..Len(read) |-> read[i].s]

\* parse_ts_imports: Ok(vec![]) when the parser reports errors, else the
\* sources of the import and re-export statements in source order.
parse_ts_imports(path, content) ==
    LET ret == Parse(content, SourceType_from_path(path))
    IN  IF ret.errors THEN <<>> ELSE TsImportLoop(ret.body, <<>>)

\* The lines syn::parse_file accepts as items.
RustItems == {"import", "use_rename", "use_glob", "mod", "mod_inline", "item", "line"}

\* The `for item in file.items` loop of parse_rs_imports with
\* extract_use_paths: a use item of a path (`use a::b;`, "import"), of a
\* renamed path (`use a::b as c;`) or of a glob (`use a::*;`) yields the
\* path, the original path or the prefix; `mod m;` yields m; an inline
\* module and any other item yield nothing.
RECURSIVE RsImportLoop(_, _)
RsImportLoop(items, imports) ==
    IF items = <<>> THEN imports
    ELSE RsImportLoop(Tail(items),
             IF Head(items).t \in {"import", "use_rename", "use_glob", "mod"}
             THEN Append(imports, Head(items).s)
             ELSE imports)

\* parse_rs_imports: vec![] when syn::parse_file fails.
parse_rs_imports(content) ==
    IF \E i \in 1..Len(content) : content[i].t \notin RustItems
    THEN <<>>
    ELSE RsImportLoop(content, <<>>)

\* ------------------------------------------------------------------------
\* Content pruning (ast.rs: prune_content, prune_ts)
\* ------------------------------------------------------------------------

\* The literals prune_ts pushes in place of a body.
BodyPruned == <<Tok("block_comment", <<"{ /* body pruned */ }">>)>>
ClassMembersPruned == <<Tok("block_comment", <<"{ /* class members pruned */ }">>)>>

\* A loop that leaves last_pos at the start of a replaced body.
RECURSIVE PruneLoopKeepingBody(_, _, _, _)
PruneLoopKeepingBody(content, body, parts, last_pos) ==
    IF body = <<>> THEN parts \o Slice(content, last_pos, Len(content))
    ELSE LET stmt == Head(body)
         IN  IF stmt.kind \in {"FunctionDeclaration", "ClassDeclaration"} /\ stmt.body_start # -1
             THEN PruneLoopKeepingBody(content, Tail(body),
                      parts \o Slice(content, last_pos, stmt.start)
                            \o Slice(content, stmt.start, stmt.body_start)
                            \o (IF stmt.kind = "FunctionDeclaration"
                                THEN BodyPruned ELSE ClassMembersPruned),
                      stmt.body_start)
             ELSE PruneLoopKeepingBody(content, Tail(body),
                      parts \o Slice(content, last_pos, stmt.end), stmt.end)

\* The `for stmt in program.body` loop of prune_ts and the final push:
\* parts joined.
RECURSIVE PruneLoop(_, _, _, _)
PruneLoop(content, body, parts, last_pos) ==
    IF body = <<>> THEN parts \o Slice(content, last_pos, Len(content))
    ELSE LET stmt == Head(body)
         IN  IF stmt.kind = "FunctionDeclaration" /\ stmt.body_start # -1
             THEN PruneLoop(content, Tail(body),
                      parts \o Slice(content, last_pos, stmt.start)
                            \o Slice(content, stmt.start, stmt.body_start)
                            \o BodyPruned,
                      stmt.body_end)
             ELSE IF stmt.kind = "ClassDeclaration"
             THEN PruneLoop(content, Tail(body),
                      parts \o Slice(content, last_pos, stmt.start)
                            \o Slice(content, stmt.start, stmt.body_start)
                            \o ClassMembersPruned,
                      stmt.body_end)
             ELSE PruneLoop(content, Tail(body),
                      parts \o Slice(content, last_pos, stmt.end), stmt.end)

\* prune_ts: the text is parsed as "dummy.tsx" whatever its path was.
prune_ts(content) ==
    LET ret == Parse(content, SourceType_from_path("dummy.tsx"))
    IN  IF ret.errors THEN content ELSE PruneLoop(content, ret.body, <<>>, 0)

Min(a, b) == IF a <= b THEN a ELSE b

\* The line appended after the kept lines: "\n... (pruned)".
PrunedMarker == Tok("line", <<"... (pruned)">>)

\* A prune_content that keeps every line.
prune_content_untruncated(path, content) ==
    IF EndsWithTs(path) THEN prune_ts(content) ELSE Append(content, PrunedMarker)

prune_content(path, content) ==
    IF EndsWithTs(path)
    THEN prune_ts(content)
    ELSE Append(SubSeq(content, 1, Min(PruneLines, Len(content))), PrunedMarker)

\* ------------------------------------------------------------------------
\* get_context (ast.rs: DependencyGraph::get_context)
\* ------------------------------------------------------------------------

\* A traversal that also expands the nodes recorded at distance 2.
ExpandLimitOneMore == 2 + 1

\* `if depth >= 2 { continue; }`: nodes at this depth are not expanded.
ExpandLimit == 2

\* `if new_depth < 3`: only nodes below this depth are queued.
QueueLimit == 3

\* An output that hands out the full content one hop too far.
FullDepthOneMore == 1 + 1

\* `if depth <= 1`: entries up to this depth carry the full content.
FullDepth == 1

\* `else if depth == 2`: entries at this depth carry the pruned content.
PrunedDepth == 2

\* The elements of a set of paths as a sequence in ascending path order.
SortByPath(S) == SelectSeq(PathOrder, LAMBDA p : p \in S)

Reverse(s) == [i \in 1..Len(s) |-> s[Len(s) + 1 - i]]

\* graph.neighbors(idx): the successors of a node, in the order the graph
\* yields them (it depends on the order the edges were added in: ascending
\* or, with rev, descending path order here).
Neighbors(E, rev, p) ==
    LET asc == SortByPath({q \in node_map : <<p, q>> \in E})
    IN  IF rev THEN Reverse(asc) ELSE asc

\* visited.insert(path, depth)
MapInsert(m, p, d) == [q \in (DOMAIN m) \cup {p} |-> IF q = p THEN d ELSE m[q]]

\* A seeding loop that stops after the first seed that is a node.
SeedLoopFirstOnly(seeds, vis, queue) ==
    LET isNode == {i \in 1..Len(seeds) : seeds[i] \in node_map}
    IN  IF isNode = {} THEN [visited |-> vis, queue |-> queue]
        ELSE LET f == seeds[CHOOSE i \in isNode : \A j \in isNode : i <= j]
             IN  [visited |-> MapInsert(vis, f, 0), queue |-> Append(queue, <<f, 0>>)]

\* The seeding loop: every seed that is a node is recorded at depth 0 and queued.
RECURSIVE SeedLoop(_, _, _)
SeedLoop(seeds, vis, queue) ==
    IF seeds = <<>> THEN [visited |-> vis, queue |-> queue]
    ELSE LET f == Head(seeds)
         IN  IF f \in node_map
             THEN SeedLoop(Tail(seeds), MapInsert(vis, f, 0), Append(queue, <<f, 0>>))
             ELSE SeedLoop(Tail(seeds), vis, queue)

\* A neighbor loop without the visited test: every successor is recorded at
\* the depth of the edge that reached it last.
RECURSIVE NeighborLoopNoCheck(_, _, _, _)
NeighborLoopNoCheck(nbrs, new_depth, vis, queue) ==
    IF nbrs = <<>> THEN [visited |-> vis, queue |-> queue]
    ELSE NeighborLoopNoCheck(Tail(nbrs), new_depth, MapInsert(vis, Head(nbrs), new_depth),
                             IF new_depth < QueueLimit
                             THEN Append(queue, <<Head(nbrs), new_depth>>) ELSE queue)

\* The `for neighbor in self.graph.neighbors(idx)` loop of one dequeued node.
RECURSIVE NeighborLoop(_, _, _, _)
NeighborLoop(nbrs, new_depth, vis, queue) ==
    IF nbrs = <<>> THEN [visited |-> vis, queue |-> queue]
    ELSE LET n == Head(nbrs)
         IN  IF n \notin DOMAIN vis \/ vis[n] > new_depth
             THEN NeighborLoop(Tail(nbrs), new_depth, MapInsert(vis, n, new_depth),
                               IF new_depth < QueueLimit
                               THEN Append(queue, <<n, new_depth>>) ELSE queue)
             ELSE NeighborLoop(Tail(nbrs), new_depth, vis, queue)

\* The `while let Some((idx, depth)) = queue.pop_front()` loop.
RECURSIVE BfsLoop(_, _, _, _)
BfsLoop(E, rev, vis, queue) ==
    IF queue = <<>> THEN vis
    ELSE LET idx   == Head(queue)[1]
             depth == Head(queue)[2]
         IN  IF depth >= ExpandLimit
             THEN BfsLoop(E, rev, vis, Tail(queue))
             ELSE LET r == NeighborLoop(Neighbors(E, rev, idx), depth + 1, vis, Tail(queue))
                  IN  BfsLoop(E, rev, r.visited, r.queue)

\* A traversal that falls back to the first scanned path when no seed was queued.
VisitedOfDefaultRoot(E, rev, seeds) ==
    LET s == SeedLoop(seeds, <<>>, <<>>)
        d == SeedLoop(<<PathOrder[1]>>, <<>>, <<>>)
    IN  IF s.queue = <<>> THEN BfsLoop(E, rev, d.visited, d.queue)
        ELSE BfsLoop(E, rev, s.visited, s.queue)

\* A traversal that starts from the last seed only.
VisitedOfLastSeed(E, rev, seeds) ==
    LET s == SeedLoop(IF seeds = <<>> THEN seeds ELSE <<seeds[Len(seeds)]>>, <<>>, <<>>)
    IN  BfsLoop(E, rev, s.visited, s.queue)

\* The visited map when the traversal ends.
VisitedOf(E, rev, seeds) ==
    LET s == SeedLoop(seeds, <<>>, <<>>)
    IN  BfsLoop(E, rev, s.visited, s.queue)

\* The entry get_context pushes for a visited path, given its depth.
EntryOf(path, depth) ==
    IF depth <= FullDepth
    THEN <<path, FileContent(path)>>
    ELSE <<path, prune_content(path, FileContent(path))>>

\* A results vector that is left in descending path order.
ResultsOfUnsorted(vis, unread) ==
    LET kept  == {p \in DOMAIN vis : p \notin unread /\ (vis[p] <= FullDepth \/ vis[p] = PrunedDepth)}
        order == Reverse(SortByPath(kept))
    IN  [i \in 1..Len(order) |-> EntryOf(order[i], vis[order[i]])]

\* The results vector after the sort: one entry per visited path whose file
\* could be read and whose depth is at most 2, in ascending path order.
ResultsOf(vis, unread) ==
    LET kept  == {p \in DOMAIN vis : p \notin unread /\ (vis[p] <= FullDepth \/ vis[p] = PrunedDepth)}
        order == SortByPath(kept)
    IN  [i \in 1..Len(order) |-> EntryOf(order[i], vis[order[i]])]

\* All sequences over S of length at most n.
SeqsUpTo(S, n) == UNION {[1..k -> S] : k \in 0..n}

get_context ==
    /\ ~queried
    /\ \E seeds \in SeqsUpTo(node_map \cup {NotANode}, MaxSeeds), neighbor_rev \in BOOLEAN :
          LET vis == VisitedOf(edges, neighbor_rev, seeds)
          IN  /\ entry_files' = seeds
              /\ visited' = vis
              /\ results' = ResultsOf(vis, Unreadable)
    /\ queried' = TRUE
    /\ UNCHANGED <<edges, loopVars, buildVars, otherVars>>

\* ------------------------------------------------------------------------
\* build (ast.rs: DependencyGraph::build and what it calls)
\* ------------------------------------------------------------------------

\* The largest number of build calls on one DependencyGraph.
MaxBuilds == 2

\* A path is its components; its string has them joined with "/"
\* (to_string_lossy on a Path that was joined, never normalised).
RECURSIVE PathString(_)
PathString(comps) ==
    IF comps = <<>> THEN ""
    ELSE IF Len(comps) = 1 THEN comps[1]
    ELSE comps[1] \o "/" \o PathString(Tail(comps))

\* `let ignore_patterns = vec![..]`
ignore_patterns == {"target", "node_modules", ".git", "dist", "build"}

\* The files WalkDir yields under the root, relative to it, in its order.
WalkOrder ==
    << <<"apps", "director-plan", "src", "c", "index.ts">>,
       <<"logo.png">>, <<"node_modules", "p.ts">>,
       <<"src", "a", "index.ts">>, <<"src", "a.ts">>, <<"src", "b.ts">>,
       <<"src", "c.ts">>, <<"src", "m.rs">>, <<"src", "n", "mod.rs">>, <<"src", "n.rs">>,
       <<"tools", "k", "mod.rs">>, <<"tools", "t.rs">> >>

WalkPaths == {PathString(WalkOrder[i]) : i \in 1..Len(WalkOrder)}

\* Path::new(s): the components of a path string of the workspace.
Components(str) == WalkOrder[CHOOSE i \in 1..Len(WalkOrder) : PathString(WalkOrder[i]) = str]

\* Path::parent(), with "" for a path of one component.
Parent(comps) == IF comps = <<>> THEN <<>> ELSE SubSeq(comps, 1, Len(comps) - 1)

\* str::ends_with(".rs") on the model's file names.
EndsWithRs(name) == name \in {"m.rs", "n.rs", "mod.rs", "c.rs", "t.rs"}

\* The FileType build gives a relative path.
FileTypeOf(comps) ==
    LET name == comps[Len(comps)]
    IN  IF name \in {"a.ts", "b.ts", "p.ts", "c.ts", "index.ts"} THEN "TypeScript"
        ELSE IF EndsWithRs(name) THEN "Rust"
        ELSE "Other"

\* Step 1 of build: the (rel_path, file_type) pairs of the files with no
\* ignored component, in the walk's order.
DiscoverFiles ==
    LET kept == SelectSeq(WalkOrder,
                          LAMBDA c : \A i \in 1..Len(c) : c[i] \notin ignore_patterns)
    IN  [i \in 1..Len(kept) |-> [rel_path |-> PathString(kept[i]), file_type |-> FileTypeOf(kept[i])]]

\* The graph before the first build (DependencyGraph::new).
EmptyGraph == [nodes |-> <<>>, edges |-> <<>>, index |-> <<>>]

\* add_node that does not look the path up first.
add_node_unchecked(g, path, file_type) ==
    [g EXCEPT !.nodes = Append(@, [path |-> path, file_type |-> file_type]),
              !.index = MapInsert(@, path, Len(g.nodes) + 1)]

\* add_node: a path already in node_map keeps its node; else a node is
\* appended and its index recorded.
add_node(g, path, file_type) ==
    IF path \in DOMAIN g.index THEN g
    ELSE [g EXCEPT !.nodes = Append(@, [path |-> path, file_type |-> file_type]),
                   !.index = MapInsert(@, path, Len(g.nodes) + 1)]

\* graph.contains_edge(from_idx, to_idx)
contains_edge(g, from_idx, to_idx) ==
    \E i \in 1..Len(g.edges) : g.edges[i] = <<from_idx, to_idx>>

\* add_edge that does not test contains_edge.
add_edge_unchecked(g, from, to) ==
    IF from \in DOMAIN g.index /\ to \in DOMAIN g.index
    THEN [g EXCEPT !.edges = Append(@, <<g.index[from], g.index[to]>>)]
    ELSE g

\* add_edge: only between two paths of node_map, and only once per ordered pair.
add_edge(g, from, to) ==
    IF from \in DOMAIN g.index /\ to \in DOMAIN g.index
    THEN IF ~contains_edge(g, g.index[from], g.index[to])
         THEN [g EXCEPT !.edges = Append(@, <<g.index[from], g.index[to]>>)]
         ELSE g
    ELSE g

\* Option<String>::None of the resolvers.
NoPath == ""

\* `let extensions = ["ts", "tsx", "d.ts", "js", "jsx"]`
extensions == <<"ts", "tsx", "d.ts", "js", "jsx">>

\* The first element of a sequence of path strings that is a key of the map.
RECURSIVE FirstPresent(_, _)
FirstPresent(strs, index) ==
    IF strs = <<>> THEN NoPath
    ELSE IF Head(strs) \in DOMAIN index THEN Head(strs)
    ELSE FirstPresent(Tail(strs), index)

\* Tries that look for the index files before the extensions.
TsTriesIndexFirst(candidate) ==
    LET str == PathString(candidate)
    IN  <<str>> \o [i \in 1..Len(extensions) |-> str \o "/index." \o extensions[i]]
              \o [i \in 1..Len(extensions) |-> str \o "." \o extensions[i]]

\* What resolve_ts_import tries for one candidate, in its order: the path
\* itself, the path with each extension, the path's index file with each.
TsTries(candidate) ==
    LET str == PathString(candidate)
    IN  <<str>> \o [i \in 1..Len(extensions) |-> str \o "." \o extensions[i]]
              \o [i \in 1..Len(extensions) |-> str \o "/index." \o extensions[i]]

\* resolve_ts_import.  A specifier is its text split at "/": "./b" is
\* <<".", "b">>, "@/b" is <<"@", "b">>, "react" is <<"react">>.
resolve_ts_import(index, current_file, import_path) ==
    LET current_dir == Parent(Components(current_file))
        candidates ==
            IF import_path[1] \in {".", ".."}
            THEN <<current_dir \o import_path>>
            ELSE IF import_path[1] = "@" /\ Len(import_path) >= 2
            THEN << <<"apps", "director-plan", "src">> \o Tail(import_path),
                    <<"src">> \o Tail(import_path) >>
            ELSE <<>>
        tries == IF Len(candidates) = 0 THEN <<>>
                 ELSE IF Len(candidates) = 1 THEN TsTries(candidates[1])
                 ELSE TsTries(candidates[1]) \o TsTries(candidates[2])
    IN  FirstPresent(tries, index)

\* The walk up of resolve_rs_import: to the nearest directory named "src",
\* or to the empty path when there is none.
RECURSIVE WalkUpToSrc(_)
WalkUpToSrc(dir) ==
    IF dir = <<>> THEN dir
    ELSE IF dir[Len(dir)] = "src" THEN dir
    ELSE WalkUpToSrc(Parent(dir))

\* A resolver that looks for <segment>/mod.rs before the sibling file.
resolve_rs_import_mod_first(index, current_file, module_path) ==
    LET parent   == Parent(Components(current_file))
        neighbor == PathString(Append(parent, module_path[1] \o ".rs"))
        mod_rs   == PathString(parent \o <<module_path[1], "mod.rs">>)
    IN  IF mod_rs \in DOMAIN index THEN mod_rs
        ELSE IF neighbor \in DOMAIN index THEN neighbor
        ELSE NoPath

\* resolve_rs_import.  A module path is its text split at "::".
resolve_rs_import(index, current_file, module_path) ==
    LET parent   == Parent(Components(current_file))
        neighbor == PathString(Append(parent, module_path[1] \o ".rs"))
        mod_rs   == PathString(parent \o <<module_path[1], "mod.rs">>)
        s_crate  == PathString(WalkUpToSrc(parent) \o Tail(module_path)) \o ".rs"
    IN  IF neighbor \in DOMAIN index THEN neighbor
        ELSE IF mod_rs \in DOMAIN index THEN mod_rs
        ELSE IF module_path[1] = "crate" /\ Len(module_path) >= 2 /\ s_crate \in DOMAIN index
        THEN s_crate
        ELSE NoPath

\* The `for import in imports` loops of analyze_imports.
RECURSIVE ImportLoop(_, _, _, _)
ImportLoop(g, rel_path, file_type, imports) ==
    IF imports = <<>> THEN g
    ELSE LET resolved == IF file_type = "TypeScript"
                         THEN resolve_ts_import(g.index, rel_path, Head(imports))
                         ELSE resolve_rs_import(g.index, rel_path, Head(imports))
         IN  ImportLoop(IF resolved # NoPath THEN add_edge(g, rel_path, resolved) ELSE g,
                        rel_path, file_type, Tail(imports))

\* analyze_imports: Err when the file cannot be read, else Ok with the
\* edges of the file's resolved imports added.
analyze_imports(g, files, rel_path, file_type) ==
    IF ~files[rel_path].readable THEN [ok |-> FALSE, g |-> g]
    ELSE IF file_type \in {"TypeScript", "Rust"}
    THEN [ok |-> TRUE,
          g  |-> ImportLoop(g, rel_path, file_type,
                            IF file_type = "TypeScript"
                            THEN parse_ts_imports(rel_path, files[rel_path].text)
                            ELSE parse_rs_imports(files[rel_path].text))]
    ELSE [ok |-> TRUE, g |-> g]

\* Step 2 of build: `for (rel_path, file_type) in &files { self.add_node(..) }`
\* In both loops the second disjunct of the exit test is always false: it only
\* makes the graph built so far be evaluated before the loop goes on to the
\* next file, so that the evaluation stays shallow however many files are walked.
RECURSIVE AddNodes(_, _)
AddNodes(g, found) ==
    IF found = <<>> \/ g.nodes # g.nodes THEN g
    ELSE AddNodes(add_node(g, Head(found).rel_path, Head(found).file_type), Tail(found))

\* An edge loop that gives up at the first file whose analysis fails.
RECURSIVE AddEdgesAborting(_, _, _)
AddEdgesAborting(g, files, found) ==
    IF found = <<>> THEN g
    ELSE LET r == analyze_imports(g, files, Head(found).rel_path, Head(found).file_type)
         IN  IF r.ok THEN AddEdgesAborting(r.g, files, Tail(found)) ELSE g

\* Step 3 of build: every file is analysed; a failure is logged and the
\* loop goes on with the next file.
RECURSIVE AddEdges(_, _, _)
AddEdges(g, files, found) ==
    IF found = <<>> \/ g.edges # g.edges THEN g
    ELSE AddEdges(analyze_imports(g, files, Head(found).rel_path, Head(found).file_type).g,
                  files, Tail(found))

\* The graph after build() on graph g over the files.
BuildOf(g, files) == AddEdges(AddNodes(g, DiscoverFiles), files, DiscoverFiles)

\* build(): always Ok(()).
build ==
    /\ builds < MaxBuilds
    /\ LET g == BuildOf([nodes |-> graph.nodes, edges |-> graph.edges, index |-> node_index],
                        workspace)
       IN  /\ graph' = [nodes |-> g.nodes, edges |-> g.edges]
           /\ node_index' = g.index
    /\ builds' = builds + 1
    /\ UNCHANGED <<workspace, ctxVars, loopVars, otherVars>>

\* What build reads of a file: whether fs::read_to_string succeeds, and the
\* text: one import (a `use` item in a Rust text) per specifier, followed
\* by an unbalanced brace when the text is to have a syntax error.
Content(readable, parses, imports) ==
    [readable |-> readable,
     text     |-> [i \in 1..Len(imports) |-> Tok("import", imports[i])]
                     \o (IF parses THEN <<>> ELSE <<Tok("junk", <<"}">>)>>)]

TsImportLists ==
    { <<>>,
      << <<"@", "b">> >>,
      << <<"@", "b">>, <<"@", "b.ts">> >>,
      << <<".", "b">> >>,
      << <<"@", "a">>, <<"react">> >>,
      << <<"@", "c">> >> }

RsImportLists ==
    { <<>>,
      << <<"n">> >>,
      << <<"n">>, <<"crate", "n">> >>,
      << <<"m">>, <<"std", "fs">> >> }

\* The contents a file of a type may have; a binary file is never readable.
ContentsOf(file_type) ==
    CASE file_type = "TypeScript" ->
            {Content(TRUE, TRUE, l) : l \in TsImportLists}
                \cup {Content(TRUE, FALSE, << <<"@", "b">> >>), Content(FALSE, TRUE, << <<"@", "b">> >>)}
      [] file_type = "Rust" ->
            {Content(TRUE, TRUE, l) : l \in RsImportLists}
                \cup {Content(TRUE, FALSE, << <<"n">> >>), Content(FALSE, TRUE, << <<"n">> >>)}
      [] OTHER -> {Content(FALSE, FALSE, <<>>)}

\* The workspaces: every file of the walk with one of its type's contents
\* (the ignored file and the binary file have one content each).
Workspaces ==
    { [f \in WalkPaths |->
          CASE f = "src/a.ts" -> a
            [] f = "src/b.ts" -> b
            [] f = "src/m.rs" -> m
            [] f = "src/n.rs" -> n
            [] f = "node_modules/p.ts" -> Content(TRUE, TRUE, << <<"@", "b">> >>)
            [] f = "logo.png" -> Content(FALSE, FALSE, <<>>)
            [] f = "src/n/mod.rs" -> Content(TRUE, TRUE, << <<"crate", "m">> >>)
            [] f = "tools/t.rs" -> Content(TRUE, TRUE, << <<"crate", "n">>, <<"k">> >>)
            [] OTHER -> Content(TRUE, TRUE, <<>>)] :
        a \in ContentsOf("TypeScript"), b \in ContentsOf("TypeScript"),
        m \in ContentsOf("Rust"), n \in ContentsOf("Rust") }

\* The build's variables while another part of the program is looked at.
BuildAtRest ==
    /\ workspace = [f \in WalkPaths |-> Content(FALSE, FALSE, <<>>)]
    /\ graph = [nodes |-> <<>>, edges |-> <<>>]
    /\ node_index = <<>>
    /\ builds = 0

InitBuild ==
    /\ workspace \in Workspaces
    /\ graph = [nodes |-> <<>>, edges |-> <<>>]
    /\ node_index = <<>>
    /\ builds = 0

\* ------------------------------------------------------------------------
\* The execution pipeline (execution_loop.rs)
\* ------------------------------------------------------------------------

\* Option<String>::None.
None == "None"

\* Option<f32>: Some(value), in hundredths, and None.
Some(v) == [some |-> TRUE, value |-> v]
NoValue == [some |-> FALSE, value |-> 0]

\* What a parser made of a text: a number, in hundredths, or the way it failed.
Number(v) == [is |-> "number", value |-> v]
Not(why) == [is |-> why, value |-> 0]

\* `let mut final_confidence = 1.0`, in hundredths.
DefaultConfidence == 100

\* `confidence: 0.0` of the result returned after the retries ran out.
RevertedConfidence == 0

\* Tracked files of the repository, and files a subprocess may create.
TrackedFiles == {"src/lib.rs"}
NewFiles == {"notes.txt"}

\* The working trees: which tracked files differ from HEAD, which untracked files exist.
Trees == [modified : SUBSET TrackedFiles, untracked : SUBSET NewFiles]

CleanTree == [modified |-> {}, untracked |-> {}]

\* A reading of `git status --porcelain` that lists nothing for untracked files.
is_git_dirty_tracked_only(t) == t.modified # {}

\* is_git_dirty: `git status --porcelain` prints a line for every modified
\* tracked file and for every untracked file.
is_git_dirty(t) == t.modified # {} \/ t.untracked # {}

\* reset_hard: `git reset --hard` restores the tracked files to HEAD and
\* leaves untracked files where they are.
reset_hard(t) == [t EXCEPT !.modified = {}]

\* What the agent printed on stdout, by what extract_confidence reads of it:
\* whether it holds a '{' and a '}', whether the first '{' is before the last
\* '}', what serde_json makes of that substring ("invalid", "no_field",
\* "not_number" or the number), and what the fallback regular expression
\* captures ("no_match", "unparsable" or the number).
Output(text, open, close, ordered, json, regex) ==
    [text |-> text, open |-> open, close |-> close, ordered |-> ordered,
     json |-> json, regex |-> regex]

AgentOutputs ==
    { Output("", FALSE, FALSE, FALSE, Not("invalid"), Not("no_match")),
      Output("done {\"confidence\": 0.5}", TRUE, TRUE, TRUE, Number(50), Number(50)),
      Output("{\"confidence\": 7}", TRUE, TRUE, TRUE, Number(700), Number(700)),
      Output("{\"confidence\": -1}", TRUE, TRUE, TRUE, Number(-100), Not("no_match")),
      Output("{\"status\": \"ok\"}", TRUE, TRUE, TRUE, Not("no_field"), Not("no_match")),
      Output("{\"confidence\": \"high\"}", TRUE, TRUE, TRUE, Not("not_number"), Not("no_match")),
      Output("{a} \"confidence\": 0.9 {b}", TRUE, TRUE, TRUE, Not("invalid"), Number(90)),
      Output("\"confidence\": 0.9", FALSE, FALSE, FALSE, Not("invalid"), Number(90)),
      Output("{\"confidence\": 1.2.3}", TRUE, TRUE, TRUE, Not("invalid"), Not("unparsable")),
      Output("} \"confidence\": 0.9 {", TRUE, TRUE, FALSE, Not("invalid"), Number(90)) }

\* extract_confidence: None without a '{' or a '}'; the JSON object's numeric
\* confidence field when the substring parses; else the regular expression's
\* capture when it parses as a number.  The value is returned as it is.
extract_confidence(output) ==
    IF ~output.open THEN NoValue
    ELSE IF ~output.close THEN NoValue
    ELSE IF output.ordered /\ output.json.is = "number" THEN Some(output.json.value)
    ELSE IF output.regex.is = "number" THEN Some(output.regex.value)
    ELSE NoValue

\* A loop that falls back to the default when an output carries no value.
NextConfidenceOrDefault(current, output) ==
    IF extract_confidence(output).some THEN extract_confidence(output).value
    ELSE DefaultConfidence

\* `if let Some(c) = self.extract_confidence(&agent_output) { final_confidence = c; }`
NextConfidence(current, output) ==
    IF extract_confidence(output).some THEN extract_confidence(output).value ELSE current

\* The error strings pushed to previous_errors, by their prefix and cause.
AgentError(cause) == [kind |-> "Agent Execution Failed", cause |-> cause]
VerificationError(cause) == [kind |-> "Verification Failed", cause |-> cause]

\* A prompt that never shows the errors of the earlier iterations.
generate_prompt_without_errors(errors) ==
    [error_section |-> FALSE, error_lines |-> SubSeq(errors, 1, 0)]

\* generate_prompt, by the part of the prompt that depends on the run: the
\* "# Previous Errors (FIX THESE)" section is written only for a non-empty
\* error list and holds one line per error, in the list's order.
generate_prompt(errors) ==
    [error_section |-> errors # <<>>, error_lines |-> errors]

\* What verify_visual meets: how the screenshot capture ended, whether
\* actual.png and the golden image exist, whether both decode, whether their
\* dimensions are equal, and whether some pixel differs.
VisualEnvs ==
    [capture : {"ok", "spawn_failed", "exit_nonzero"}, actual : BOOLEAN, golden : BOOLEAN,
     decodes : BOOLEAN, same_dimensions : BOOLEAN, pixels_differ : BOOLEAN]

\* verify_visual: Err(cause), or Ok(report) with the report's diff_detected.
verify_visual(env) ==
    IF env.capture = "spawn_failed" THEN [err |-> "Failed to execute playwright script"]
    ELSE IF env.capture = "exit_nonzero" THEN [err |-> "Playwright screenshot capture failed"]
    ELSE IF ~env.actual THEN [err |-> "actual.png was not created"]
    ELSE IF ~env.golden THEN [err |-> "Golden image not found"]
    ELSE IF ~env.decodes THEN [err |-> "Failed to decode image"]
    ELSE IF ~env.same_dimensions THEN [err |-> None, diff_detected |-> TRUE]
    ELSE [err |-> None, diff_detected |-> env.pixels_differ]

\* A shell check with the exit status test inverted.
CommandFailsInverted(command, exit_zero) == command # "" /\ exit_zero

\* The shell check of verify: an empty command is not run; a run command
\* fails the verification when its exit status is not zero.
CommandFails(command, exit_zero) == command # "" /\ ~exit_zero

\* What the verification command prints when it runs.
CommandOutput == [stdout |-> "1 test failed", stderr |-> "error[E0308]"]

\* The message of a failed shell check:
\* `anyhow!("Command Failed:\nSTDOUT:\n{}\nSTDERR:\n{}", stdout, stderr)`
CommandFailed(stdout, stderr) ==
    "Command Failed:\nSTDOUT:\n" \o stdout \o "\nSTDERR:\n" \o stderr

\* A verification that runs the visual check whether or not a golden image
\* is configured.
verify_always_visual(t, exit_zero, env) ==
    IF CommandFails(t.command, exit_zero)
    THEN CommandFailed(CommandOutput.stdout, CommandOutput.stderr)
    ELSE LET report == verify_visual(env)
         IN  IF report.err # None THEN report.err
             ELSE IF report.diff_detected THEN "Visual Verification Failed"
             ELSE None

\* verify: None for Ok(()), else the cause of the Err.
verify(t, exit_zero, env) ==
    IF CommandFails(t.command, exit_zero)
    THEN CommandFailed(CommandOutput.stdout, CommandOutput.stderr)
    ELSE IF t.golden_image # None
         THEN LET report == verify_visual(env)
              IN  IF report.err # None THEN report.err
                  ELSE IF report.diff_detected THEN "Visual Verification Failed"
                  ELSE None
         ELSE None

\* The exit statuses the verification command may end with in one attempt.
ExitZeroChoices == 
    CASE command_exit = "zero"    -> {TRUE}
      [] command_exit = "nonzero" -> {FALSE}
      [] OTHER                    -> BOOLEAN

\* A loop condition that lets one more iteration in.
LoopContinuesOnceMore == pc \in {"Detached", "Attempting"} /\ attempts <= ticket.max_retries

\* `while attempts < max_retries`
LoopContinues == pc \in {"Detached", "Attempting"} /\ attempts < ticket.max_retries

\* run_with_handshake is called.
Call ==
    /\ pc = "Idle"
    /\ pc' = "DirtyCheck"
    /\ UNCHANGED <<buildVars, ctxVars, otherVars, ticket, command_exit, tree, pre_tree, head, attempts, previous_errors,
                   success, final_confidence, returned, result, agent_runs, verify_runs,
                   resets, last_extracted, prompts>>

\* `if self.is_git_dirty()? { return Err(..) }`
DirtyAbort ==
    /\ pc = "DirtyCheck"
    /\ is_git_dirty(tree)
    /\ pc' = "Terminal"
    /\ returned' = "err"
    /\ UNCHANGED <<buildVars, ctxVars, otherVars, ticket, command_exit, tree, pre_tree, head, attempts, previous_errors,
                   success, final_confidence, result, agent_runs, verify_runs,
                   resets, last_extracted, prompts>>

\* enter_detached_head (`git checkout --detach`) and the locals' initial values.
EnterDetachedHead ==
    /\ pc = "DirtyCheck"
    /\ ~is_git_dirty(tree)
    /\ head' = "detached"
    /\ attempts' = 0
    /\ previous_errors' = <<>>
    /\ success' = FALSE
    /\ final_confidence' = DefaultConfidence
    /\ prompts' = <<>>
    /\ pc' = "Detached"
    /\ UNCHANGED <<buildVars, ctxVars, otherVars, ticket, command_exit, tree, pre_tree, returned, result, agent_runs,
                   verify_runs, resets, last_extracted>>

\* One iteration whose agent could not be spawned: nothing ran.
AgentSpawnFails ==
    /\ LoopContinues
    /\ prompts' = Append(prompts, generate_prompt(previous_errors))
    /\ previous_errors' = Append(previous_errors, AgentError("Failed to spawn agent command"))
    /\ attempts' = attempts + 1
    /\ pc' = "Attempting"
    /\ UNCHANGED <<buildVars, ctxVars, otherVars, ticket, command_exit, tree, pre_tree, head, success, final_confidence,
                   returned, result, agent_runs, verify_runs, resets, last_extracted>>

\* A failed agent iteration that nevertheless reads a confidence from the output.
AgentExitsNonZeroExtracting ==
    /\ LoopContinues
    /\ prompts' = Append(prompts, generate_prompt(previous_errors))
    /\ tree' \in Trees
    /\ agent_runs' = agent_runs + 1
    /\ \E output \in AgentOutputs :
          /\ final_confidence' = NextConfidence(final_confidence, output)
          /\ last_extracted' = IF extract_confidence(output).some
                               THEN extract_confidence(output) ELSE last_extracted
    /\ previous_errors' = Append(previous_errors, AgentError("Agent exited with status"))
    /\ attempts' = attempts + 1
    /\ pc' = "Attempting"
    /\ UNCHANGED <<buildVars, ctxVars, otherVars, ticket, command_exit, pre_tree, head, success,
                   returned, result, verify_runs, resets>>

\* One iteration whose agent ran, left the working tree in some state and
\* exited with a non-zero status: its output is not looked at.
AgentExitsNonZero ==
    /\ LoopContinues
    /\ tree' \in Trees
    /\ prompts' = Append(prompts, generate_prompt(previous_errors))
    /\ agent_runs' = agent_runs + 1
    /\ previous_errors' = Append(previous_errors, AgentError("Agent exited with status"))
    /\ attempts' = attempts + 1
    /\ pc' = "Attempting"
    /\ UNCHANGED <<buildVars, ctxVars, otherVars, ticket, command_exit, pre_tree, head, success, final_confidence,
                   returned, result, verify_runs, resets, last_extracted>>

\* One iteration whose agent ran and exited with status zero: the confidence
\* is taken from its output, then verification is due.
AgentSucceeds ==
    /\ LoopContinues
    /\ prompts' = Append(prompts, generate_prompt(previous_errors))
    /\ tree' \in Trees
    /\ agent_runs' = agent_runs + 1
    /\ \E output \in AgentOutputs :
          /\ final_confidence' = NextConfidence(final_confidence, output)
          /\ last_extracted' = IF extract_confidence(output).some
                               THEN extract_confidence(output) ELSE last_extracted
    /\ pc' = "Verifying"
    /\ UNCHANGED <<buildVars, ctxVars, otherVars, ticket, command_exit, pre_tree, head, attempts, previous_errors, success,
                   returned, result, verify_runs, resets>>

\* A successful end that goes back to the branch it came from.
VerifyPassesThenLeaves ==
    /\ pc = "Verifying"
    /\ \E exit_zero \in ExitZeroChoices, env \in VisualEnvs :
          verify(ticket, exit_zero, env) = None
    /\ verify_runs' = verify_runs + 1
    /\ success' = TRUE
    /\ head' = "main"
    /\ returned' = "ok"
    /\ result' = [success |-> TRUE, confidence |-> final_confidence, errors |-> previous_errors]
    /\ pc' = "Terminal"
    /\ UNCHANGED <<buildVars, ctxVars, otherVars, ticket, command_exit, tree, pre_tree, attempts,
                   previous_errors, final_confidence, agent_runs, resets, last_extracted, prompts>>

\* verify() returned Ok: `success = true; break`, and the Ok result is returned.
VerifyPasses ==
    /\ pc = "Verifying"
    /\ \E exit_zero \in ExitZeroChoices, env \in VisualEnvs :
          verify(ticket, exit_zero, env) = None
    /\ verify_runs' = verify_runs + 1
    /\ success' = TRUE
    /\ returned' = "ok"
    /\ result' = [success |-> TRUE, confidence |-> final_confidence, errors |-> previous_errors]
    /\ pc' = "Terminal"
    /\ UNCHANGED <<buildVars, ctxVars, otherVars, ticket, command_exit, tree, pre_tree, head, attempts, previous_errors,
                   final_confidence, agent_runs, resets, last_extracted, prompts>>

\* A failed verification that resets the working tree before the next attempt.
VerifyFailsThenReset ==
    /\ pc = "Verifying"
    /\ \E exit_zero \in ExitZeroChoices, env \in VisualEnvs :
          /\ verify(ticket, exit_zero, env) # None
          /\ previous_errors' =
                Append(previous_errors, VerificationError(verify(ticket, exit_zero, env)))
    /\ verify_runs' = verify_runs + 1
    /\ attempts' = attempts + 1
    /\ tree' = reset_hard(tree)
    /\ resets' = resets + 1
    /\ pc' = "Attempting"
    /\ UNCHANGED <<buildVars, ctxVars, otherVars, ticket, command_exit, pre_tree, head, success,
                   final_confidence, returned, result, agent_runs, last_extracted, prompts>>

\* verify() returned Err: the error is pushed and the attempt counted.
VerifyFails ==
    /\ pc = "Verifying"
    /\ \E exit_zero \in ExitZeroChoices, env \in VisualEnvs :
          /\ verify(ticket, exit_zero, env) # None
          /\ previous_errors' =
                Append(previous_errors, VerificationError(verify(ticket, exit_zero, env)))
    /\ verify_runs' = verify_runs + 1
    /\ attempts' = attempts + 1
    /\ pc' = "Attempting"
    /\ UNCHANGED <<buildVars, ctxVars, otherVars, ticket, command_exit, tree, pre_tree, head, success, final_confidence,
                   returned, result, agent_runs, resets, last_extracted, prompts>>

\* The loop ended without success: reset_hard, leave_detached_head
\* (`git checkout -` goes back to the branch left by enter_detached_head),
\* and the Ok result of a failed run.
Revert ==
    /\ pc \in {"Detached", "Attempting"}
    /\ ~(attempts < ticket.max_retries)
    /\ tree' = reset_hard(tree)
    /\ resets' = resets + 1
    /\ head' = "main"
    /\ returned' = "ok"
    /\ result' = [success |-> FALSE, confidence |-> RevertedConfidence,
                  errors |-> previous_errors]
    /\ pc' = "Terminal"
    /\ UNCHANGED <<buildVars, ctxVars, otherVars, ticket, command_exit, pre_tree, attempts, previous_errors, success,
                   final_confidence, agent_runs, verify_runs, last_extracted, prompts>>

\* ------------------------------------------------------------------------
\* The degrader and the import extractor applied to texts
\* ------------------------------------------------------------------------

\* At most this many pieces (statements, or stray lexemes) in a drawn text.
MaxPieces == 2

\* At most this many lines beyond PruneLines in a drawn text.
MaxExtraLines == 2

\* The paths texts are read from: two TypeScript files, a Rust file and a
\* file of no known type.
SourcePaths == {"a.ts", "v.tsx", "c.rs", "notes.md"}

\* The pieces of a TypeScript text: whole statements, a head without its
\* body, a body of the wrong sort, white space and a stray brace.
TsPieces ==
    { <<Tok("import", <<".", "b">>)>>,
      <<Tok("export_from", <<"@", "b">>)>>,
      <<Tok("export_all", <<"react">>)>>,
      <<Tok("export_decl", <<"export function g() { return 1; }">>)>>,
      <<Tok("export_default", <<"export default function () { return 1; }">>)>>,
      <<Tok("interface", <<"interface I { x: number }">>)>>,
      <<Tok("type_alias", <<"type T = number;">>)>>,
      <<Tok("variable", <<"const c = () => { return 1; };">>)>>,
      <<Tok("angle_assertion", <<"const n = <number>y;">>)>>,
      <<Tok("expression", <<"f();">>)>>,
      <<Tok("function_signature", <<"declare function h(): void;">>)>>,
      <<Tok("function_head", <<"function f(): void ">>), Tok("block_statements", <<"{ return; }">>)>>,
      <<Tok("function_head", <<"function f(): void ">>)>> \o BodyPruned,
      <<Tok("function_head", <<"function f(): void ">>)>>,
      <<Tok("class_head", <<"class C ">>), Tok("block_members", <<"{ m() { return 1; } }">>)>>,
      <<Tok("class_head", <<"class C ">>)>> \o ClassMembersPruned,
      <<Tok("class_head", <<"class C ">>), Tok("block_statements", <<"{ return; }">>)>>,
      <<Tok("block_statements", <<"{ f(); }">>)>>,
      <<Tok("trivia", <<" /* note */ ">>)>>,
      <<Tok("junk", <<"}">>)>> }

\* The pieces of a Rust text, one line each.
RsPieces ==
    { <<Tok("import", <<"crate", "n">>)>>,
      <<Tok("use_rename", <<"n">>)>>,
      <<Tok("use_glob", <<"std", "fs">>)>>,
      <<Tok("mod", <<"n">>)>>,
      <<Tok("mod_inline", <<"mod tests { }">>)>>,
      <<Tok("item", <<"fn main() { }">>)>>,
      <<Tok("junk", <<"fn main( {">>)>> }

\* The pieces in all orders, up to n of them, joined.
RECURSIVE Joined(_, _)
Joined(pieces, n) ==
    IF n = 0 THEN {<<>>}
    ELSE LET shorter == Joined(pieces, n - 1)
         IN  shorter \cup {t \o p : t \in shorter, p \in pieces}

\* The texts a file at a path may hold.
TextsOf(path) ==
    IF EndsWithTs(path) THEN Joined(TsPieces, MaxPieces)
    ELSE {Lines(n) : n \in 0..(PruneLines + MaxExtraLines)}
            \cup (IF EndsWithRs(path) THEN Joined(RsPieces, MaxPieces) ELSE {})

\* A result not computed yet, and a computed one.
Pending == [done |-> FALSE, is |-> <<>>]
Done(v) == [done |-> TRUE, is |-> v]

\* prune_content on the text read from the file.
Degrade ==
    /\ ~degraded.done
    /\ degraded' = Done(prune_content(src_path, src_text))
    /\ UNCHANGED <<src_path, src_text, degraded_twice, extracted, exceptSource>>

\* prune_content on what prune_content returned.
DegradeAgain ==
    /\ degraded.done
    /\ ~degraded_twice.done
    /\ degraded_twice' = Done(prune_content(src_path, degraded.is))
    /\ UNCHANGED <<src_path, src_text, degraded, extracted, exceptSource>>

\* The match on file_type in analyze_imports: the imports the parser of the
\* file's type yields; a file of another type is not parsed.
ExtractImports ==
    /\ ~extracted.done
    /\ extracted' = Done(IF EndsWithTs(src_path) THEN parse_ts_imports(src_path, src_text)
                         ELSE IF EndsWithRs(src_path) THEN parse_rs_imports(src_text)
                         ELSE <<>>)
    /\ UNCHANGED <<src_path, src_text, degraded, degraded_twice, exceptSource>>

\* The texts' variables while another part of the program is looked at.
SourceAtRest ==
    /\ src_path = "a.ts"
    /\ src_text = <<>>
    /\ degraded = Pending
    /\ degraded_twice = Pending
    /\ extracted = Pending

InitSource ==
    /\ src_path \in SourcePaths
    /\ src_text \in TextsOf(src_path)
    /\ degraded = Pending
    /\ degraded_twice = Pending
    /\ extracted = Pending

\* ------------------------------------------------------------------------
\* The image comparison of verify_visual (verification/visual_diff.rs)
\* ------------------------------------------------------------------------

\* The largest width and height of a drawn image.
MaxWidth == 2
MaxHeight == 2

\* A decoded image: bits per channel, dimensions, and its pixels by (x, y),
\* each the sequence of its red, green, blue and alpha samples.
Image(bits, width, height, px) == [bits |-> bits, width |-> width, height |-> height, px |-> px]

\* DynamicImage::get_pixel: the pixel as Rgba<u8>.  A sample of an 8-bit
\* image is itself; a sample of a 16-bit image is scaled down and rounded.
get_pixel(img, x, y) ==
    [c \in 1..4 |-> IF img.bits = 8 THEN img.px[<<x, y>>][c]
                    ELSE (img.px[<<x, y>>][c] + 128) \div 257]

Abs(n) == IF n < 0 THEN -n ELSE n

\* pixels_match: no channel differs by more than the tolerance.
pixels_match(p1, p2, tolerance) ==
    \A c \in 1..4 : Abs(p1[c] - p2[c]) <= tolerance

\* A comparison that lets samples differ by one.
ToleranceOfOne == 0 + 1

\* `Tolerance 0 for now`
Tolerance == 0

\* Option<Rect>: None, and Some(Rect {x, y, width, height}).
NoRect == [some |-> FALSE, x |-> 0, y |-> 0, width |-> 0, height |-> 0]
Rect(x, y, width, height) == [some |-> TRUE, x |-> x, y |-> y, width |-> width, height |-> height]

\* An f64 percentage as the quotient it is computed from.
Percent(num, den) == [num |-> num, den |-> den]

\* A scan that takes the last mismatch's coordinates for min_x and min_y.
RECURSIVE PixelLoopLastMin(_, _, _, _)
PixelLoopLastMin(img1, img2, k, acc) ==
    IF k = img1.width * img1.height THEN acc
    ELSE LET x == k % img1.width
             y == k \div img1.width
         IN  PixelLoopLastMin(img1, img2, k + 1,
                 IF ~pixels_match(get_pixel(img1, x, y), get_pixel(img2, x, y), Tolerance)
                 THEN [mismatch_count |-> acc.mismatch_count + 1,
                       min_x |-> x, max_x |-> IF x > acc.max_x THEN x ELSE acc.max_x,
                       min_y |-> y, max_y |-> IF y > acc.max_y THEN y ELSE acc.max_y,
                       compared |-> acc.compared + 1]
                 ELSE [acc EXCEPT !.compared = @ + 1])

\* The `for y in 0..height { for x in 0..width {` loops, flattened: step k
\* looks at x = k % width, y = k / width.
RECURSIVE PixelLoop(_, _, _, _)
PixelLoop(img1, img2, k, acc) ==
    IF k = img1.width * img1.height THEN acc
    ELSE LET x == k % img1.width
             y == k \div img1.width
         IN  PixelLoop(img1, img2, k + 1,
                 IF ~pixels_match(get_pixel(img1, x, y), get_pixel(img2, x, y), Tolerance)
                 THEN [mismatch_count |-> acc.mismatch_count + 1,
                       min_x |-> IF x < acc.min_x THEN x ELSE acc.min_x,
                       max_x |-> IF x > acc.max_x THEN x ELSE acc.max_x,
                       min_y |-> IF y < acc.min_y THEN y ELSE acc.min_y,
                       max_y |-> IF y > acc.max_y THEN y ELSE acc.max_y,
                       compared |-> acc.compared + 1]
                 ELSE [acc EXCEPT !.compared = @ + 1])

\* A report for images of unequal dimensions that compares the pixels both have.
compare_images_overlapping(img1, img2) ==
    LET w   == IF img1.width < img2.width THEN img1.width ELSE img2.width
        h   == IF img1.height < img2.height THEN img1.height ELSE img2.height
        acc == PixelLoop([img1 EXCEPT !.width = w, !.height = h], img2, 0,
                         [mismatch_count |-> 0, min_x |-> w, max_x |-> 0,
                          min_y |-> h, max_y |-> 0, compared |-> 0])
    IN  [returned |-> "ok", diff_detected |-> TRUE, mismatch_percentage |-> Percent(100, 1),
         diff_bounds |-> NoRect, reason |-> "Dimensions mismatch", compared |-> acc.compared]

\* Step 2 of verify_visual once both images are decoded: the report, and
\* the number of pixel pairs compared.
compare_images(img1, img2) ==
    IF <<img1.width, img1.height>> # <<img2.width, img2.height>>
    THEN [returned |-> "ok", diff_detected |-> TRUE, mismatch_percentage |-> Percent(100, 1),
          diff_bounds |-> NoRect, reason |-> "Dimensions mismatch", compared |-> 0]
    ELSE LET acc == PixelLoop(img1, img2, 0,
                              [mismatch_count |-> 0, min_x |-> img1.width, max_x |-> 0,
                               min_y |-> img1.height, max_y |-> 0, compared |-> 0])
         IN  IF acc.mismatch_count > 0
             THEN [returned |-> "ok", diff_detected |-> TRUE,
                   mismatch_percentage |-> Percent(acc.mismatch_count * 100,
                                                   img1.width * img1.height),
                   diff_bounds |-> Rect(acc.min_x, acc.min_y,
                                        acc.max_x - acc.min_x + 1, acc.max_y - acc.min_y + 1),
                   reason |-> "Pixel mismatch detected", compared |-> acc.compared]
             ELSE [returned |-> "ok", diff_detected |-> FALSE,
                   mismatch_percentage |-> Percent(0, 1),
                   diff_bounds |-> NoRect, reason |-> None, compared |-> acc.compared]

\* verify_visual has not returned.
NoReport ==
    [returned |-> "none", diff_detected |-> FALSE, mismatch_percentage |-> Percent(0, 1),
     diff_bounds |-> NoRect, reason |-> None]

\* Err(cause) of verify_visual.
VisualErr(cause) == [NoReport EXCEPT !.returned = "err", !.reason = cause]

\* The ways verify_visual fails before it compares: the capture, the two
\* files, the two decodings.
VisualFailures ==
    {"Failed to execute playwright script", "Playwright screenshot capture failed",
     "Playwright finished but actual.png was not created", "Golden image not found",
     "Failed to decode golden image", "Failed to decode actual image"}

\* verify_visual returning Err: no pixel is compared.
VerifyVisualErr ==
    /\ visual.returned = "none"
    /\ \E cause \in VisualFailures : visual' = VisualErr(cause)
    /\ UNCHANGED <<img_golden, img_actual, compared, exceptVisual>>

\* verify_visual returning Ok(report): both files were there and decoded.
VerifyVisualOk ==
    /\ visual.returned = "none"
    /\ LET r == compare_images(img_golden, img_actual)
       IN  /\ visual' = [returned |-> r.returned, diff_detected |-> r.diff_detected,
                         mismatch_percentage |-> r.mismatch_percentage,
                         diff_bounds |-> r.diff_bounds, reason |-> r.reason]
           /\ compared' = r.compared
    /\ UNCHANGED <<img_golden, img_actual, exceptVisual>>

\* The samples a drawn image's pixels take in the blue channel; the other
\* colour channels are 0 and alpha is opaque.
BlueSamples(bits) == IF bits = 8 THEN {0, 1} ELSE {0, 1, 257}

\* The pixel of an image of the given depth with the blue sample.
Pixel(bits, blue) == <<0, 0, blue, IF bits = 8 THEN 255 ELSE 65535>>

Coordinates(width, height) == (0..(width - 1)) \X (0..(height - 1))

\* The golden images: 8 or 16 bits deep, of one colour.
GoldenImages ==
    UNION { { Image(bits, w, h, [xy \in Coordinates(w, h) |-> Pixel(bits, blue)]) :
                w \in 1..MaxWidth, h \in 1..MaxHeight, blue \in BlueSamples(bits) } :
            bits \in {8, 16} }

\* The screenshots: 8 bits deep, any pixels.
ActualImages ==
    UNION { { Image(8, w, h, [xy \in Coordinates(w, h) |-> Pixel(8, f[xy])]) :
                f \in [Coordinates(w, h) -> BlueSamples(8)] } :
            w \in 1..MaxWidth, h \in 1..MaxHeight }

\* The comparison's variables while another part of the program is looked at.
VisualAtRest ==
    /\ img_golden = Image(8, 1, 1, [xy \in Coordinates(1, 1) |-> Pixel(8, 0)])
    /\ img_actual = Image(8, 1, 1, [xy \in Coordinates(1, 1) |-> Pixel(8, 0)])
    /\ visual = NoReport
    /\ compared = 0

InitVisual ==
    /\ img_golden \in GoldenImages
    /\ img_actual \in ActualImages
    /\ visual = NoReport
    /\ compared = 0

\* ------------------------------------------------------------------------
\* POST /api/tickets/:id/verify (server.rs: verify_ticket)
\* ------------------------------------------------------------------------

\* The largest number of verify requests the server handles.
MaxRequests == 2

\* The ids requests carry: the ticket on disk, a ticket that is not there,
\* and an id with a directory traversal.
RequestIds == {"T-TEST", "T-NONE", "../T-TEST"}

\* validate_id: only alphanumerics, '-' and '_'.
validate_id(id) == id \in {"T-TEST", "T-NONE"}

\* plan/tickets/{id}.toml
TicketPath(id) == "plan/tickets/" \o id \o ".toml"

\* target/public/artifacts/{id}
target_artifact_dir(id) == "target/public/artifacts/" \o id

\* The golden image paths a ticket may name, and those the handler rejects
\* (golden_path.contains("..") || golden_path.starts_with('/')).
GoldenPaths == {"tests/snapshots/test.png", "../golden.png", "/srv/golden.png"}
RejectedGolden(golden_path) == golden_path \in {"../golden.png", "/srv/golden.png"}

\* The places the handler looks for the images the command left, in order.
potential_actuals(id) == <<"actual.png", "target/artifacts/" \o id \o "/actual.png">>
potential_diffs(id) == <<"diff.png", "target/artifacts/" \o id \o "/diff.png">>

\* The first of the paths that exists, as a set: empty when none does.
FirstExisting(files, paths) ==
    LET there == {i \in 1..Len(paths) : paths[i] \in files}
    IN  IF there = {} THEN {} ELSE {paths[CHOOSE i \in there : \A j \in there : i <= j]}

\* The `if output.status.success() { .. }` block: the artifact directory
\* is made, and the golden image and the first actual and diff image found
\* are copied into it.
CopyArtifacts(files, golden_image, id) ==
    LET dir == target_artifact_dir(id)
    IN  files \cup {dir}
              \cup (IF golden_image # None /\ ~RejectedGolden(golden_image) /\ golden_image \in files
                    THEN {dir \o "/golden.png"} ELSE {})
              \cup (IF FirstExisting(files, potential_actuals(id)) # {}
                    THEN {dir \o "/actual.png"} ELSE {})
              \cup (IF FirstExisting(files, potential_diffs(id)) # {}
                    THEN {dir \o "/diff.png"} ELSE {})

\* An HTTP answer: an error with its status, or the 200 body.
ErrorResponse(status, error) ==
    [status |-> status, success |-> FALSE, artifacts_path |-> "", error |-> error]
OkResponse(exit_zero, id) ==
    [status |-> 200, success |-> exit_zero, artifacts_path |-> "/artifacts/" \o id, error |-> ""]
NoResponse == ErrorResponse(0, "")

\* verify_ticket: the files afterwards and the answer, given the ticket on
\* disk and how the command runs (whether sh can be spawned, its exit
\* status, the files it writes under the workspace root).
verify_ticket(files, t, id, run) ==
    IF ~validate_id(id) THEN [files |-> files, response |-> ErrorResponse(400, "Invalid ID format")]
    ELSE IF TicketPath(id) \notin files
    THEN [files |-> files, response |-> ErrorResponse(404, "Ticket not found")]
    ELSE IF t.state = "corrupt"
    THEN [files |-> files, response |-> ErrorResponse(500, "Failed to parse ticket")]
    ELSE IF t.command \in {"", " "}
    THEN [files |-> files, response |-> ErrorResponse(400, "Empty verification command")]
    ELSE IF ~run.spawns
    THEN [files |-> files, response |-> ErrorResponse(500, "Failed to execute command")]
    ELSE [files    |-> IF run.exit_zero
                       THEN CopyArtifacts(files \cup run.writes, t.golden_image, id)
                       ELSE files \cup run.writes,
          response |-> OkResponse(run.exit_zero, id)]

\* The ways a verification command may run.
Runs ==
    [spawns : BOOLEAN, exit_zero : BOOLEAN,
     writes : {{}, {"actual.png"}, {"actual.png", "diff.png"},
               {"target/artifacts/T-TEST/actual.png", "target/artifacts/T-TEST/diff.png"},
               {"diff.png", "target/artifacts/T-TEST/actual.png"}}]

NoRequest == [id |-> "", run |-> [spawns |-> FALSE, exit_zero |-> FALSE, writes |-> {}]]

\* One POST /api/tickets/<id>/verify, from the request to the answer.
VerifyTicket ==
    /\ srv_requests < MaxRequests
    /\ \E id \in RequestIds, run \in Runs :
          LET r == verify_ticket(srv_files, srv_ticket, id, run)
          IN  /\ srv_files' = r.files
              /\ srv_response' = r.response
              /\ srv_request' = [id |-> id, run |-> run]
    /\ srv_requests' = srv_requests + 1
    /\ UNCHANGED <<srv_ticket, exceptServer>>

\* The tickets T-TEST.toml may hold.
ServerTickets ==
    [state : {"ok", "corrupt"}, command : {"", " ", "run"}, golden_image : {None} \cup GoldenPaths]

\* The server's variables while another part of the program is looked at.
ServerAtRest ==
    /\ srv_files = {}
    /\ srv_ticket = [state |-> "ok", command |-> "", golden_image |-> None]
    /\ srv_request = NoRequest
    /\ srv_response = NoResponse
    /\ srv_requests = 0

\* A workspace with or without the ticket file and the golden image, and no
\* artifact yet (start_server makes target/public/artifacts).
InitServer ==
    /\ srv_files \in {{"target/public/artifacts"} \cup t \cup g :
                        t \in SUBSET {TicketPath("T-TEST")}, g \in SUBSET {"tests/snapshots/test.png"}}
    /\ srv_ticket \in ServerTickets
    /\ srv_request = NoRequest
    /\ srv_response = NoResponse
    /\ srv_requests = 0

\* ------------------------------------------------------------------------
\* The worker (worker.rs: Worker::run, poll_ticket, process_ticket)
\* ------------------------------------------------------------------------

\* The largest pool size a worker is made with.
MaxPool == 2

\* The tickets under plan/tickets, in the order GET /api/tickets lists them.
TicketOrder == <<"T-1", "T-2">>
TicketIds == {TicketOrder[i] : i \in 1..Len(TicketOrder)}

\* format!("radkit/{}", ticket.meta.id.to_lowercase())
branch_name(id) == IF id = "T-1" THEN "radkit/t-1" ELSE "radkit/t-2"

\* The values ticket.verification.min_confidence takes, in hundredths.
MinConfidences == {0, 80}

\* The way of a process_ticket call that has not returned.
PathAt(clean_start) == [clean_start |-> clean_start, agent_ran |-> FALSE, exit |-> "none"]

\* The tickets process_ticket is running for.
Active == {t \in TicketIds : w_step[t] # "idle"}

\* poll_ticket's loop: the first listed ticket with status "todo" and owner
\* "radkit" (every listed ticket has its file), as a set: empty for Ok(None).
FirstTodo ==
    LET todo == {i \in 1..Len(TicketOrder) :
                    w_status[TicketOrder[i]] = "todo" /\ w_owner[TicketOrder[i]] = "radkit"}
    IN  IF todo = {} THEN {} ELSE {TicketOrder[CHOOSE i \in todo : \A j \in todo : i <= j]}

\* poll_ticket returns Err: the server is down or answers with an error.
PollError ==
    /\ w_run = "poll"
    /\ w_run' = "sleep"
    /\ UNCHANGED <<w_pool_size, w_step, w_status, w_owner, w_ignored, w_dirty, w_head,
                   w_branches, w_result, w_prs, w_returned, w_min, w_path, exceptWorker>>

\* poll_ticket returns Ok(None).
PollNone ==
    /\ w_run = "poll"
    /\ FirstTodo = {}
    /\ w_run' = "sleep"
    /\ UNCHANGED <<w_pool_size, w_step, w_status, w_owner, w_ignored, w_dirty, w_head,
                   w_branches, w_result, w_prs, w_returned, w_min, w_path, exceptWorker>>

\* tokio::time::sleep(..).await is over.
WakeUp ==
    /\ w_run = "sleep"
    /\ w_run' = "poll"
    /\ UNCHANGED <<w_pool_size, w_step, w_status, w_owner, w_ignored, w_dirty, w_head,
                   w_branches, w_result, w_prs, w_returned, w_min, w_path, exceptWorker>>

\* A run loop that starts process_ticket as a task of its own while fewer
\* than pool_size tickets are in work, and polls on.
PollFindsSpawning ==
    /\ w_run = "poll"
    /\ \E t \in FirstTodo :
          /\ w_step[t] = "idle"
          /\ w_step' = [w_step EXCEPT ![t] = "claim"]
          /\ w_path' = [w_path EXCEPT ![t] = PathAt(~w_dirty)]
          /\ w_run' = IF Cardinality(Active) + 1 < w_pool_size THEN "poll" ELSE "await"
    /\ UNCHANGED <<w_pool_size, w_status, w_owner, w_ignored, w_dirty, w_head,
                   w_branches, w_result, w_prs, w_returned, w_min, exceptWorker>>

\* poll_ticket returns Ok(Some(ticket)): run calls process_ticket and
\* awaits it.
PollFinds ==
    /\ w_run = "poll"
    /\ \E t \in FirstTodo :
          /\ w_step[t] = "idle"
          /\ w_step' = [w_step EXCEPT ![t] = "claim"]
          /\ w_path' = [w_path EXCEPT ![t] = PathAt(~w_dirty)]
          /\ w_run' = "await"
    /\ UNCHANGED <<w_pool_size, w_status, w_owner, w_ignored, w_dirty, w_head,
                   w_branches, w_result, w_prs, w_returned, w_min, exceptWorker>>

\* process_ticket returns for ticket t from the statement `exit`: run's
\* await is over and the loop polls again.
Return(t, how, exit) ==
    /\ w_step' = [w_step EXCEPT ![t] = "idle"]
    /\ w_returned' = [w_returned EXCEPT ![t] = how]
    /\ w_path' = [w_path EXCEPT ![t].exit = exit]
    /\ w_run' = IF w_run = "await" THEN "poll" ELSE w_run

\* save_ticket writes the ticket file: git sees a change unless it ignores
\* plan/tickets.
Saved(t, status) ==
    /\ w_status' = [w_status EXCEPT ![t] = status]
    /\ w_dirty' = (w_dirty \/ ~w_ignored)

\* 1. Claim Ticket: status InProgress is saved, or save_ticket fails and
\* process_ticket returns the error.
ClaimTicket(t) ==
    /\ w_step[t] = "claim"
    /\ \/ /\ Saved(t, "in_progress")
          /\ w_step' = [w_step EXCEPT ![t] = "branch"]
          /\ UNCHANGED <<w_run, w_returned, w_path>>
       \/ /\ Return(t, "err", "claim_failed")
          /\ UNCHANGED <<w_status, w_dirty>>
    /\ UNCHANGED <<w_pool_size, w_owner, w_ignored, w_head, w_branches, w_result, w_prs,
                   w_min, exceptWorker>>

\* 2. Create Branch: git checkout main, git pull, git checkout -b; the exit
\* statuses are not looked at.  checkout -b fails when the branch exists,
\* and the checkout stays on main.  When git cannot be started,
\* create_branch returns the error and so does process_ticket.
CreateBranch(t) ==
    /\ w_step[t] = "branch"
    /\ \/ /\ w_head' = IF branch_name(t) \in w_branches THEN "main" ELSE branch_name(t)
          /\ w_branches' = w_branches \cup {branch_name(t)}
          /\ w_step' = [w_step EXCEPT ![t] = "loop"]
          /\ UNCHANGED <<w_run, w_returned, w_path>>
       \/ /\ Return(t, "err", "branch_failed")
          /\ UNCHANGED <<w_head, w_branches>>
    /\ UNCHANGED <<w_pool_size, w_status, w_owner, w_ignored, w_dirty, w_result,
                   w_prs, w_min, exceptWorker>>

\* What run_with_handshake may return once its dirty check passed: Err, a
\* success with the confidence extracted (or the default), or the reverted
\* result with confidence 0; and whether the agent was invoked before (it
\* always is on the way to a success).
LoopResults ==
    {[ok |-> FALSE, success |-> FALSE, confidence |-> 0, agent_ran |-> FALSE],
     [ok |-> FALSE, success |-> FALSE, confidence |-> 0, agent_ran |-> TRUE],
     [ok |-> TRUE, success |-> FALSE, confidence |-> RevertedConfidence, agent_ran |-> FALSE],
     [ok |-> TRUE, success |-> FALSE, confidence |-> RevertedConfidence, agent_ran |-> TRUE],
     [ok |-> TRUE, success |-> TRUE, confidence |-> 50, agent_ran |-> TRUE],
     [ok |-> TRUE, success |-> TRUE, confidence |-> DefaultConfidence, agent_ran |-> TRUE]}

\* 3. Execute Loop, stopped by its dirty check: git status reports changes,
\* run_with_handshake returns Err("Workspace is dirty..") before anything
\* else; status Review is saved, or the save fails, and process_ticket
\* returns an error.
ExecuteLoopDirty(t) ==
    /\ w_step[t] = "loop"
    /\ w_dirty
    /\ \/ Saved(t, "review")
       \/ UNCHANGED <<w_status, w_dirty>>
    /\ Return(t, "err", "loop_dirty")
    /\ UNCHANGED <<w_pool_size, w_owner, w_ignored, w_head, w_branches, w_result, w_prs,
                   w_min, exceptWorker>>

\* 3. Execute Loop, failing after the dirty check passed (a git command or
\* generate_prompt returns Err): status Review is saved, or the save fails,
\* and process_ticket returns an error.
ExecuteLoopErr(t) ==
    /\ w_step[t] = "loop"
    /\ ~w_dirty
    /\ \E r \in LoopResults :
          /\ ~r.ok
          /\ w_path' = [w_path EXCEPT ![t].agent_ran = r.agent_ran, ![t].exit = "loop_failed"]
    /\ \/ Saved(t, "review")
       \/ UNCHANGED <<w_status, w_dirty>>
    /\ w_step' = [w_step EXCEPT ![t] = "idle"]
    /\ w_returned' = [w_returned EXCEPT ![t] = "err"]
    /\ w_run' = IF w_run = "await" THEN "poll" ELSE w_run
    /\ UNCHANGED <<w_pool_size, w_owner, w_ignored, w_head, w_branches, w_result, w_prs,
                   w_min, exceptWorker>>

\* 3. Execute Loop, returning Ok(result): the checkout was clean; a
\* successful run leaves the agent's changes in the working tree.
ExecuteLoopOk(t) ==
    /\ w_step[t] = "loop"
    /\ ~w_dirty
    /\ \E r \in LoopResults :
          /\ r.ok
          /\ w_result' = [ok |-> TRUE, success |-> r.success, confidence |-> r.confidence]
          /\ w_path' = [w_path EXCEPT ![t].agent_ran = r.agent_ran]
          /\ w_dirty' \in (IF r.success THEN BOOLEAN ELSE {FALSE})
    /\ w_step' = [w_step EXCEPT ![t] = "confidence"]
    /\ UNCHANGED <<w_pool_size, w_run, w_status, w_owner, w_ignored, w_head, w_branches,
                   w_prs, w_returned, w_min, exceptWorker>>

\* 4. Check Confidence, too low: status Review is saved (or the save
\* fails) and process_ticket returns.
ConfidenceTooLow(t) ==
    /\ w_step[t] = "confidence"
    /\ w_result.confidence < w_min[t]
    /\ \/ Saved(t, "review") /\ Return(t, "ok", "low_confidence")
       \/ UNCHANGED <<w_status, w_dirty>> /\ Return(t, "err", "save_failed")
    /\ UNCHANGED <<w_pool_size, w_owner, w_ignored, w_head, w_branches, w_result, w_prs,
                   w_min, exceptWorker>>

\* 4. Check Confidence, high enough.
ConfidenceEnough(t) ==
    /\ w_step[t] = "confidence"
    /\ ~(w_result.confidence < w_min[t])
    /\ w_step' = [w_step EXCEPT ![t] = "pr"]
    /\ UNCHANGED <<w_pool_size, w_run, w_status, w_owner, w_ignored, w_dirty, w_head,
                   w_branches, w_result, w_prs, w_returned, w_min, w_path, exceptWorker>>

\* 5. Submit PR fails (push, GITHUB_TOKEN, remote url or the API call):
\* process_ticket returns the error.
SubmitPrErr(t) ==
    /\ w_step[t] = "pr"
    /\ Return(t, "err", "pr_failed")
    /\ UNCHANGED <<w_pool_size, w_status, w_owner, w_ignored, w_dirty, w_head, w_branches,
                   w_result, w_prs, w_min, exceptWorker>>

\* 5. Submit PR succeeds.
SubmitPrOk(t) ==
    /\ w_step[t] = "pr"
    /\ w_prs' = w_prs \cup {t}
    /\ w_step' = [w_step EXCEPT ![t] = "mark"]
    /\ UNCHANGED <<w_pool_size, w_run, w_status, w_owner, w_ignored, w_dirty, w_head,
                   w_branches, w_result, w_returned, w_min, w_path, exceptWorker>>

\* 6. Status Review is saved, or the save fails and process_ticket returns
\* the error.
MarkReview(t) ==
    /\ w_step[t] = "mark"
    /\ \/ /\ Saved(t, "review")
          /\ w_step' = [w_step EXCEPT ![t] = "reset"]
          /\ UNCHANGED <<w_run, w_returned, w_path>>
       \/ /\ Return(t, "err", "save_failed")
          /\ UNCHANGED <<w_status, w_dirty>>
    /\ UNCHANGED <<w_pool_size, w_owner, w_ignored, w_head, w_branches, w_result, w_prs,
                   w_min, exceptWorker>>

\* reset_to_base: git checkout main, and process_ticket returns Ok(()); or
\* git cannot be started and process_ticket returns the error.
ResetToBase(t) ==
    /\ w_step[t] = "reset"
    /\ \/ w_head' = "main" /\ Return(t, "ok", "done")
       \/ UNCHANGED w_head /\ Return(t, "err", "reset_failed")
    /\ UNCHANGED <<w_pool_size, w_status, w_owner, w_ignored, w_dirty, w_branches,
                   w_result, w_prs, w_min, exceptWorker>>

\* The worker's variables while another part of the program is looked at.
WorkerAtRest ==
    /\ w_pool_size = 1
    /\ w_run = "poll"
    /\ w_step = [t \in TicketIds |-> "idle"]
    /\ w_status = [t \in TicketIds |-> "done"]
    /\ w_owner = [t \in TicketIds |-> "radkit"]
    /\ w_ignored = FALSE
    /\ w_dirty = FALSE
    /\ w_head = "main"
    /\ w_branches = {"main"}
    /\ w_result = [ok |-> FALSE, success |-> FALSE, confidence |-> 0]
    /\ w_prs = {}
    /\ w_returned = [t \in TicketIds |-> "none"]
    /\ w_min = [t \in TicketIds |-> 0]
    /\ w_path = [t \in TicketIds |-> PathAt(TRUE)]

\* Worker::new and the workspace it is started in.
InitWorker ==
    /\ w_pool_size \in 1..MaxPool
    /\ w_run = "poll"
    /\ w_step = [t \in TicketIds |-> "idle"]
    /\ w_status \in [TicketIds -> {"todo", "done"}]
    /\ w_owner \in [TicketIds -> {"radkit", "human"}]
    /\ w_ignored \in BOOLEAN
    /\ w_dirty = FALSE
    /\ w_head = "main"
    /\ w_branches \in {{"main"}, {"main", "radkit/t-2"}}
    /\ w_result = [ok |-> FALSE, success |-> FALSE, confidence |-> 0]
    /\ w_prs = {}
    /\ w_returned = [t \in TicketIds |-> "none"]
    /\ w_min \in [TicketIds -> MinConfidences]
    /\ w_path = [t \in TicketIds |-> PathAt(TRUE)]

\* ------------------------------------------------------------------------
\* Heuristic discovery and the prompt's context section (discovery.rs:
\* discover_context; execution_loop.rs: generate_prompt)
\* ------------------------------------------------------------------------

\* The largest number of description tokens.
MaxTokens == 11

\* `score += 10` for every token the file name contains.
FilenameScore == 10

\* The extension test before the content is read: d.png is not in the list.
TextExtension(p) == p # "d.png"

\* The score of one walked file: 10 per token in its name, and, while the
\* score is below 10 and the extension is a text extension, 1 per token in
\* its content.
Score(m, p) ==
    LET by_name == FilenameScore * m[p].name
    IN  IF by_name < FilenameScore /\ TextExtension(p)
        THEN by_name + m[p].content
        ELSE by_name

\* scored_files.sort_by(|a, b| b.1.cmp(&a.1)): a stable sort, so files of
\* one score stay in walk order; s is the highest score not yet placed.
RECURSIVE SortByScore(_, _, _)
SortByScore(walked, m, s) ==
    IF s = 0 THEN <<>>
    ELSE SelectSeq(walked, LAMBDA p : Score(m, p) = s) \o SortByScore(walked, m, s - 1)

\* discover_context: nothing without tokens; else the walked files with a
\* positive score, by descending score.  WalkDir yields the files in the
\* directory's order: ascending or, with walk_rev, descending here.
discover_context(tokens, m, walk_rev) ==
    LET walked == IF walk_rev THEN Reverse(SortByPath(node_map)) ELSE SortByPath(node_map)
        top    == CHOOSE t \in {Score(m, p) : p \in node_map} :
                      \A p \in node_map : Score(m, p) <= t
    IN  IF tokens = 0 THEN <<>> ELSE SortByScore(walked, m, top)

\* `for f in discovered { if !relevant_files.contains(&f) { relevant_files.push(f); } }`
RECURSIVE AppendUnique(_, _)
AppendUnique(relevant_files, discovered) ==
    IF discovered = <<>> THEN relevant_files
    ELSE AppendUnique(IF \E i \in 1..Len(relevant_files) : relevant_files[i] = Head(discovered)
                      THEN relevant_files ELSE Append(relevant_files, Head(discovered)),
                      Tail(discovered))

\* fs::read_to_string(path).unwrap_or_default()
ReadOrDefault(p) == IF p \in Unreadable THEN <<>> ELSE FileContent(p)

\* `for file in &relevant_files { if path.exists() { .. } }`: every listed
\* file that exists, with its whole content.
LoadFully(relevant_files) ==
    LET existing == SelectSeq(relevant_files, LAMBDA p : p \in node_map)
    IN  [i \in 1..Len(existing) |-> <<existing[i], ReadOrDefault(existing[i])>>]

\* generate_prompt's context section: the discovered files are appended when
\* the explicit list is empty or auto_context is set; with auto_context and
\* explicit files the section is get_context of the explicit files over the
\* built graph (build always returns Ok), and in every other case the listed
\* files are loaded fully.
ContextSection(E, spec, discovered, neighbor_rev) ==
    LET relevant_files ==
            IF spec.relevant_files = <<>> \/ spec.auto_context
            THEN AppendUnique(spec.relevant_files, discovered)
            ELSE spec.relevant_files
    IN  IF spec.auto_context /\ spec.relevant_files # <<>>
        THEN ResultsOf(VisitedOf(E, neighbor_rev, spec.relevant_files), Unreadable)
        ELSE LoadFully(relevant_files)

\* `director-plan context <id>`: discovery runs when the explicit list is
\* empty, and the listed files are printed whole.
ContextCommand ==
    /\ p_called = "none"
    /\ \E walk_rev \in BOOLEAN :
          LET discovered == IF p_spec.relevant_files = <<>>
                            THEN discover_context(p_tokens, p_matches, walk_rev)
                            ELSE <<>>
          IN  /\ p_discovered' = discovered
              /\ p_context' = LoadFully(IF p_spec.relevant_files = <<>> THEN discovered
                                        ELSE p_spec.relevant_files)
    /\ p_called' = "context"
    /\ UNCHANGED <<p_tokens, p_matches, p_spec, exceptPrompt>>

\* generate_prompt, by its context section.
GeneratePrompt ==
    /\ p_called = "none"
    /\ \E walk_rev \in BOOLEAN, neighbor_rev \in BOOLEAN :
          LET discovered == IF p_spec.relevant_files = <<>> \/ p_spec.auto_context
                            THEN discover_context(p_tokens, p_matches, walk_rev)
                            ELSE <<>>
          IN  /\ p_discovered' = discovered
              /\ p_context' = ContextSection(edges, p_spec, discovered, neighbor_rev)
    /\ p_called' = "prompt"
    /\ UNCHANGED <<p_tokens, p_matches, p_spec, exceptPrompt>>

\* The variables of this part while another part of the program is looked at.
PromptAtRest ==
    /\ p_tokens = 0
    /\ p_matches = [p \in node_map |-> [name |-> 0, content |-> 0]]
    /\ p_spec = [relevant_files |-> <<>>, auto_context |-> FALSE]
    /\ p_discovered = <<>>
    /\ p_context = <<>>
    /\ p_called = "none"

\* The match counts of a file for n tokens: none or one token in the name;
\* none, one or every token in the content.
MatchCounts(n) ==
    [name : {0, Min(1, n)}, content : {0, Min(1, n), n}]

\* A ticket and the workspace it is run in.
InitPrompt ==
    /\ p_tokens \in 0..MaxTokens
    /\ p_matches \in {m \in [node_map -> MatchCounts(p_tokens)] :
                        /\ m["c.rs"].name = 0
                        /\ m["d.png"].content = 0}
    /\ p_spec \in [relevant_files : {<<>>, <<"a.ts">>, <<"b.ts", NotANode>>},
                   auto_context : BOOLEAN]
    /\ p_discovered = <<>>
    /\ p_context = <<>>
    /\ p_called = "none"

\* Every part of the program this module has and a specification may leave at rest.
OtherAtRest ==
    SourceAtRest /\ VisualAtRest /\ ServerAtRest /\ WorkerAtRest /\ PromptAtRest

\* The result variable before run_with_handshake has returned Ok.
NoResult == [success |-> FALSE, confidence |-> 0, errors |-> <<>>]

\* The loop's variables while only the context query is looked at.
LoopAtRest ==
    /\ pc = "Idle"
    /\ ticket = [max_retries |-> 0, command |-> "", golden_image |-> None]
    /\ command_exit = "zero"
    /\ tree = CleanTree
    /\ pre_tree = CleanTree
    /\ head = "main"
    /\ attempts = 0
    /\ previous_errors = <<>>
    /\ success = FALSE
    /\ final_confidence = DefaultConfidence
    /\ returned = "none"
    /\ result = NoResult
    /\ agent_runs = 0
    /\ verify_runs = 0
    /\ resets = 0
    /\ last_extracted = NoValue
    /\ prompts = <<>>

\* The graph's variables while only the execution loop is looked at.
ContextAtRest ==
    /\ edges = {}
    /\ entry_files = <<>>
    /\ visited = <<>>
    /\ results = <<>>
    /\ queried = FALSE

\* The tickets: a retry budget, a verification command (empty or not) and an
\* optional golden image.
Tickets ==
    [max_retries : 0..MaxRetries, command : {"", "sh -c check"},
     golden_image : {None, "golden.png"}]

\* ------------------------------------------------------------------------
\* Specification of the execution loop
\* ------------------------------------------------------------------------

InitLoop ==
    /\ ContextAtRest
    /\ BuildAtRest
    /\ OtherAtRest
    /\ pc = "Idle"
    /\ ticket \in Tickets
    /\ command_exit \in {"zero", "nonzero", "varies"}
    /\ tree \in Trees
    /\ pre_tree = tree
    /\ head = "main"
    /\ attempts = 0
    /\ previous_errors = <<>>
    /\ success = FALSE
    /\ final_confidence = DefaultConfidence
    /\ returned = "none"
    /\ result = NoResult
    /\ agent_runs = 0
    /\ verify_runs = 0
    /\ resets = 0
    /\ last_extracted = NoValue
    /\ prompts = <<>>

NextLoop ==
    \/ Call
    \/ DirtyAbort
    \/ EnterDetachedHead
    \/ AgentSpawnFails
    \/ AgentExitsNonZero
    \/ AgentSucceeds
    \/ VerifyPasses
    \/ VerifyFails
    \/ Revert

SpecLoop == InitLoop /\ [][NextLoop]_vars

\* The same, for a caller that is running: run_with_handshake is sequential
\* code, so with every subprocess terminating its next step is always taken.
SpecLoopFair == SpecLoop /\ WF_vars(NextLoop)

\* ------------------------------------------------------------------------
\* Specification of the context query
\* ------------------------------------------------------------------------

InitContext ==
    /\ LoopAtRest
    /\ BuildAtRest
    /\ OtherAtRest
    /\ edges \in {E \in SUBSET (node_map \X node_map) : Cardinality(E) <= MaxEdges}
    /\ entry_files = <<>>
    /\ visited = <<>>
    /\ results = <<>>
    /\ queried = FALSE

NextContext == get_context

SpecContext == InitContext /\ [][NextContext]_vars

\* ------------------------------------------------------------------------
\* Specification of the context query for the comparison of seed lists
\* ------------------------------------------------------------------------

\* At most this many edges in a dependency graph drawn by InitSeedLists.
MaxFewEdges == 2

InitSeedLists ==
    /\ LoopAtRest
    /\ BuildAtRest
    /\ OtherAtRest
    /\ edges \in {E \in SUBSET (node_map \X node_map) : Cardinality(E) <= MaxFewEdges}
    /\ entry_files = <<>>
    /\ visited = <<>>
    /\ results = <<>>
    /\ queried = FALSE

SpecSeedLists == InitSeedLists /\ [][NextContext]_vars

\* ------------------------------------------------------------------------
\* Specification of the graph build
\* ------------------------------------------------------------------------

InitBuildSpec == InitBuild /\ ContextAtRest /\ LoopAtRest /\ OtherAtRest

NextBuild == build

SpecBuild == InitBuildSpec /\ [][NextBuild]_vars

\* ------------------------------------------------------------------------
\* Specification of the degrader and the import extractor
\* ------------------------------------------------------------------------

InitSourceSpec ==
    InitSource /\ ContextAtRest /\ LoopAtRest /\ BuildAtRest /\ VisualAtRest /\ ServerAtRest
        /\ WorkerAtRest /\ PromptAtRest

NextSource == Degrade \/ DegradeAgain \/ ExtractImports

SpecSource == InitSourceSpec /\ [][NextSource]_vars

\* ------------------------------------------------------------------------
\* Specification of the image comparison
\* ------------------------------------------------------------------------

InitVisualSpec ==
    InitVisual /\ ContextAtRest /\ LoopAtRest /\ BuildAtRest /\ SourceAtRest /\ ServerAtRest
        /\ WorkerAtRest /\ PromptAtRest

NextVisual == VerifyVisualErr \/ VerifyVisualOk

SpecVisual == InitVisualSpec /\ [][NextVisual]_vars

\* ------------------------------------------------------------------------
\* Specification of the server's verify handler
\* ------------------------------------------------------------------------

InitServerSpec ==
    InitServer /\ ContextAtRest /\ LoopAtRest /\ BuildAtRest /\ SourceAtRest /\ VisualAtRest
        /\ WorkerAtRest /\ PromptAtRest

NextServer == VerifyTicket

SpecServer == InitServerSpec /\ [][NextServer]_vars

\* ------------------------------------------------------------------------
\* Specification of the worker
\* ------------------------------------------------------------------------

InitWorkerSpec ==
    InitWorker /\ ContextAtRest /\ LoopAtRest /\ BuildAtRest /\ SourceAtRest /\ VisualAtRest
        /\ ServerAtRest /\ PromptAtRest

NextWorker ==
    \/ PollError
    \/ PollNone
    \/ WakeUp
    \/ PollFinds
    \/ \E t \in TicketIds :
          \/ ClaimTicket(t)
          \/ CreateBranch(t)
          \/ ExecuteLoopDirty(t)
          \/ ExecuteLoopErr(t)
          \/ ExecuteLoopOk(t)
          \/ ConfidenceTooLow(t)
          \/ ConfidenceEnough(t)
          \/ SubmitPrErr(t)
          \/ SubmitPrOk(t)
          \/ MarkReview(t)
          \/ ResetToBase(t)

SpecWorker == InitWorkerSpec /\ [][NextWorker]_vars

\* ------------------------------------------------------------------------
\* Specification of discovery and the prompt's context section
\* ------------------------------------------------------------------------

\* The import graphs a prompt is generated over.
PromptGraphs ==
    {{}, {<<"a.ts", "b.ts">>, <<"b.ts", "c.rs">>, <<"c.rs", "d.png">>}}

InitPromptSpec ==
    /\ InitPrompt
    /\ edges \in PromptGraphs
    /\ entry_files = <<>>
    /\ visited = <<>>
    /\ results = <<>>
    /\ queried = FALSE
    /\ LoopAtRest /\ BuildAtRest /\ SourceAtRest /\ VisualAtRest /\ ServerAtRest /\ WorkerAtRest

NextPrompt == ContextCommand \/ GeneratePrompt

SpecPrompt == InitPromptSpec /\ [][NextPrompt]_vars

\* ------------------------------------------------------------------------
\* Reference definitions for the context query
\* ------------------------------------------------------------------------

\* The seeds that are nodes of the graph.
SeedNodes == {entry_files[i] : i \in 1..Len(entry_files)} \cap node_map

\* The nodes one import away from a node of S.
Successors(S) == {q \in node_map : \E p \in S : <<p, q>> \in edges}

\* A distance standing for "not reachable from any seed".
Unreachable == Cardinality(node_map)

\* The minimum hop distance of every node from the nearest seed: `reached`
\* are the nodes at distance at most k, whose distances d already holds.
RECURSIVE DistFill(_, _, _)
DistFill(reached, k, d) ==
    LET new == Successors(reached) \ reached
    IN  IF new = {}
        THEN [n \in node_map |-> IF n \in reached THEN d[n] ELSE Unreachable]
        ELSE DistFill(reached \cup new, k + 1,
                      [n \in reached \cup new |-> IF n \in reached THEN d[n] ELSE k + 1])

DistMap == DistFill(SeedNodes, 0, [n \in SeedNodes |-> 0])

\* The paths get_context returned.
Reported == {results[i][1] : i \in 1..Len(results)}

\* The content get_context returned for a reported path.
ContentOf(p) == results[CHOOSE i \in 1..Len(results) : results[i][1] = p][2]

\* ------------------------------------------------------------------------
\* C1
\* ------------------------------------------------------------------------

\* C1 (as stated): get_context reports a node if and only if its minimum hop
\* distance from the nearest seed is at most 2, and the depth used for the
\* node is exactly that minimum distance.
C1_Original ==
    queried =>
        LET dist == DistMap
        IN  \A n \in node_map :
                /\ n \in Reported <=> dist[n] <= 2
                /\ n \in Reported => visited[n] = dist[n]

\* C1 (amended): get_context reports a node if and only if its file can be
\* read and its minimum hop distance from the nearest seed is at most 2; the
\* depth recorded for every visited node is exactly its minimum distance, and
\* the visited nodes are exactly those at distance at most 2.
C1_ShortestDistance ==
    queried =>
        LET dist == DistMap
        IN  /\ DOMAIN visited = {n \in node_map : dist[n] <= 2}
            /\ \A n \in DOMAIN visited : visited[n] = dist[n]
            /\ \A n \in node_map : n \in Reported <=> (n \notin Unreadable /\ dist[n] <= 2)

\* C1 witness: a query over a graph with a self-loop on a visited node, in
\* which a node is reported at distance 2 and an unreadable node was visited.
C1_Witness ==
    /\ queried
    /\ \E p \in DOMAIN visited : <<p, p>> \in edges
    /\ \E n \in Reported : visited[n] = 2
    /\ \E n \in Unreadable : n \in DOMAIN visited

\* ------------------------------------------------------------------------
\* C2
\* ------------------------------------------------------------------------

\* The graph is exactly the chain p1 -> p2 -> p3 -> p4.
IsChain(p1, p2, p3, p4) == edges = {<<p1, p2>>, <<p2, p3>>, <<p3, p4>>}

\* C2: the successors of a node recorded at distance 2 are never expanded, so
\* no node at minimum distance 3 or more is visited or reported; for
\* seeds = [a] on the chain a -> b, b -> c, c -> d the output holds a, b and c
\* and omits d.
C2_NoExpansionPastTwo ==
    queried =>
        /\ LET dist == DistMap
           IN  \A n \in node_map : dist[n] >= 3 => (n \notin DOMAIN visited /\ n \notin Reported)
        /\ (IsChain("a.ts", "b.ts", "c.rs", "d.png") /\ entry_files = <<"a.ts">>) =>
              /\ visited = [p \in {"a.ts", "b.ts", "c.rs"} |->
                              IF p = "a.ts" THEN 0 ELSE IF p = "b.ts" THEN 1 ELSE 2]
              /\ Reported = {"a.ts", "b.ts", "c.rs"}

\* C2 witness: the chain scenario has been queried.
C2_Witness ==
    /\ queried
    /\ IsChain("a.ts", "b.ts", "c.rs", "d.png")
    /\ entry_files = <<"a.ts">>
    /\ DistMap["d.png"] = 3

\* ------------------------------------------------------------------------
\* C3
\* ------------------------------------------------------------------------

\* C3: every entry of the output whose node is at minimum distance 0 or 1
\* carries the file's full content, and every entry at minimum distance 2
\* carries what prune_content yields for that path and content.
C3_ContentByDepth ==
    queried =>
        LET dist == DistMap
        IN  \A i \in 1..Len(results) :
                LET p == results[i][1]
                    c == results[i][2]
                IN  /\ dist[p] <= 1 => c = FileContent(p)
                    /\ dist[p] = 2 => c = prune_content(p, FileContent(p))
                    /\ dist[p] <= 2

\* C3 witness: one output holds a full entry and a degraded entry that
\* differs from the file's content.
C3_Witness ==
    /\ queried
    /\ \E p \in Reported : DistMap[p] = 1 /\ ContentOf(p) = FileContent(p)
    /\ \E p \in Reported : DistMap[p] = 2 /\ ContentOf(p) # FileContent(p)

\* ------------------------------------------------------------------------
\* C4
\* ------------------------------------------------------------------------

\* The paths of the seed list.
SeedPaths == {entry_files[i] : i \in 1..Len(entry_files)}

\* C4 (as stated): every seed path passed to get_context appears in its
\* output at depth 0 with unmodified content.
C4_Original ==
    queried =>
        \A s \in SeedPaths :
            /\ s \in Reported
            /\ s \in DOMAIN visited /\ visited[s] = 0
            /\ ContentOf(s) = FileContent(s)

\* C4 (amended): every seed path that is a node of the graph is recorded at
\* depth 0, and, when its file can be read, appears in the output with
\* unmodified content, whatever the other seeds and edges are.
C4_SeedsAtDepthZero ==
    queried =>
        \A s \in SeedPaths :
            s \in node_map =>
                /\ s \in DOMAIN visited /\ visited[s] = 0
                /\ s \notin Unreadable =>
                      (s \in Reported /\ ContentOf(s) = FileContent(s))

\* C4 witness: a seed that is two hops behind another seed, with content
\* that pruning would change, is reported.
C4_Witness ==
    /\ queried
    /\ Len(entry_files) = 2
    /\ \E m \in node_map :
          /\ <<entry_files[1], m>> \in edges
          /\ <<m, entry_files[2]>> \in edges
          /\ m # entry_files[1] /\ m # entry_files[2]
    /\ entry_files[1] # entry_files[2]
    /\ entry_files[2] \in Reported
    /\ prune_content(entry_files[2], FileContent(entry_files[2])) # FileContent(entry_files[2])

\* ------------------------------------------------------------------------
\* Reference definitions for the execution loop
\* ------------------------------------------------------------------------

\* run_with_handshake has returned Ok(ExecutionResult).
ReturnedOk == pc = "Terminal" /\ returned = "ok"

\* No iteration of the run failed in its agent invocation.
EveryAgentRan ==
    \A i \in 1..Len(previous_errors) : previous_errors[i].kind # "Agent Execution Failed"

\* The first iteration's agent exited zero and its visual check, if one ran,
\* found no difference: the first recorded failure, if any, is the shell check's.
FirstAttemptOnlyShellChecked ==
    \/ previous_errors = <<>>
    \/ previous_errors[1] =
          VerificationError(CommandFailed(CommandOutput.stdout, CommandOutput.stderr))

\* ------------------------------------------------------------------------
\* C5
\* ------------------------------------------------------------------------

\* C5: if the workspace has uncommitted changes when run_with_handshake
\* starts, the run aborts with an error before any mutation: the checkout is
\* not detached, the agent is never invoked, verification is never run, no
\* hard reset is performed and no attempt is counted.
C5_DirtyAbortsUntouched ==
    pre_tree # CleanTree =>
        /\ pc \in {"Idle", "DirtyCheck", "Terminal"}
        /\ pc = "Terminal" => returned = "err"
        /\ head = "main"
        /\ tree = pre_tree
        /\ agent_runs = 0
        /\ verify_runs = 0
        /\ resets = 0
        /\ attempts = 0
        /\ previous_errors = <<>>

\* C5 witness: a run on a workspace whose only uncommitted change is an
\* untracked file has ended with the error.
C5_Witness ==
    /\ pc = "Terminal"
    /\ returned = "err"
    /\ pre_tree.modified = {}
    /\ pre_tree.untracked # {}

\* ------------------------------------------------------------------------
\* C6
\* ------------------------------------------------------------------------

\* C6 (as stated): with a verification command that always exits non-zero
\* and a retry budget N, a run (whose agent invocations all exit zero)
\* reports failure after exactly N attempts with exactly N verification-error
\* strings, and the working tree is back in its pre-run state: every change
\* made during the run, newly created files included, is gone and the prior
\* checkout is restored.
C6_Original ==
    (ReturnedOk /\ ticket.command # "" /\ command_exit = "nonzero" /\ EveryAgentRan) =>
        /\ ~result.success
        /\ attempts = ticket.max_retries
        /\ Len(result.errors) = ticket.max_retries
        /\ \A i \in 1..Len(result.errors) : result.errors[i].kind = "Verification Failed"
        /\ head = "main"
        /\ tree = pre_tree

\* ------------------------------------------------------------------------
\* C7
\* ------------------------------------------------------------------------

C8_Original ==
    \A i \in 1..Len(previous_errors) :
        previous_errors[i] # VerificationError("Golden image not found")

\* ------------------------------------------------------------------------
\* C9
\* ------------------------------------------------------------------------

\* The value the run extracted last, or 1.0 (in hundredths) if it extracted none.
LastExtractedOrDefault == IF last_extracted.some THEN last_extracted.value ELSE 100

\* C9 (as stated): the confidence in the result is the value most recently
\* extracted from an agent output during the run, and 1.0 if none was, for
\* every terminal outcome, successful or reverted.
C9_Original == ReturnedOk => result.confidence = LastExtractedOrDefault

\* C9 (amended): when the run ends in success, the confidence in the result
\* is the value most recently extracted from an agent output during the run,
\* and 1.0 if none was; when it ends reverted, the confidence is 0.0
\* whatever was extracted.
C9_ConfidenceOfResult ==
    ReturnedOk =>
        /\ result.success => result.confidence = LastExtractedOrDefault
        /\ ~result.success => result.confidence = 0

\* C9 witness: a run has succeeded after a failed attempt, with a confidence
\* that some agent output carried.
C9_Witness ==
    /\ ReturnedOk
    /\ result.success
    /\ Len(result.errors) >= 1
    /\ last_extracted.some
    /\ result.confidence = last_extracted.value
    /\ result.confidence # 100

\* ------------------------------------------------------------------------
\* C10
\* ------------------------------------------------------------------------

\* C10 (as stated): the confidence returned by run_with_handshake lies in
\* the closed interval [0, 1] (0..100 in hundredths), whatever the agent prints.
C10_Original == ReturnedOk => (0 <= result.confidence /\ result.confidence <= 100)

\* ------------------------------------------------------------------------
\* C11
\* ------------------------------------------------------------------------

\* C11: the working tree is never reset between attempts: a hard reset is
\* performed only on the terminal failure path, when the retry budget is
\* exhausted and the run did not succeed; until then the working tree changes
\* only while an agent runs, so the edits an attempt left (whether its agent
\* or its verification failed) are there when the next attempt starts.
C11_NoResetBetweenAttempts ==
    [][ /\ resets' # resets =>
              /\ resets' = resets + 1
              /\ ~(attempts < ticket.max_retries)
              /\ ~success
              /\ pc' = "Terminal" /\ returned' = "ok" /\ ~result'.success
        /\ pc' \in {"Attempting", "Verifying"} => resets' = 0
        /\ (tree' # tree /\ pc' # "Terminal") => agent_runs' = agent_runs + 1
        /\ (pc = "Verifying" /\ pc' = "Attempting") => tree' = tree
      ]_vars

\* C11 witness: the second attempt is about to start, after a failed
\* verification, on a working tree that holds a modified file and a new file,
\* and no reset has happened.
C11_Witness ==
    /\ pc = "Attempting"
    /\ attempts = 1
    /\ attempts < ticket.max_retries
    /\ previous_errors[1].kind = "Verification Failed"
    /\ tree.modified # {}
    /\ tree.untracked # {}
    /\ resets = 0

\* ------------------------------------------------------------------------
\* C12
\* ------------------------------------------------------------------------

\* C12: when verification passes, the run terminates with success without a
\* hard reset or a checkout: the step leaves the working tree as it is, HEAD
\* stays detached, and no reset has been performed in the run.
C12_SuccessKeepsWorkspace ==
    [][ (pc = "Verifying" /\ pc' = "Terminal") =>
              /\ success' /\ returned' = "ok" /\ result'.success
              /\ tree' = tree
              /\ head = "detached" /\ head' = "detached"
              /\ resets' = 0
              /\ attempts' = attempts
      ]_vars

\* C12 witness: a run has ended in success with the agent's changes, a
\* modified file and a new file, in the working tree of the detached checkout.
C12_Witness ==
    /\ ReturnedOk
    /\ result.success
    /\ head = "detached"
    /\ tree.modified # {}
    /\ tree.untracked # {}
    /\ pre_tree = CleanTree
    /\ resets = 0

\* ------------------------------------------------------------------------
\* C13
\* ------------------------------------------------------------------------

\* C13: an iteration whose agent fails to spawn or exits non-zero appends
\* exactly one "agent execution failed" error, counts one attempt, runs no
\* verification, extracts no confidence and performs no reset or checkout, so
\* the working tree stays as the agent left it; and an error of that kind is
\* recorded by no other step.
C13_AgentFailureRecorded ==
    [][ /\ (LoopContinues /\ pc' = "Attempting") =>
              /\ Len(previous_errors') = Len(previous_errors) + 1
              /\ SubSeq(previous_errors', 1, Len(previous_errors)) = previous_errors
              /\ previous_errors'[Len(previous_errors')].kind = "Agent Execution Failed"
              /\ attempts' = attempts + 1
              /\ verify_runs' = verify_runs
              /\ final_confidence' = final_confidence
              /\ last_extracted' = last_extracted
              /\ resets' = resets
              /\ head' = head
        /\ (\E i \in 1..Len(previous_errors') :
                /\ previous_errors'[i].kind = "Agent Execution Failed"
                /\ i > Len(previous_errors)) => (LoopContinues /\ pc' = "Attempting")
      ]_vars

\* C13 witness: after an agent that changed the working tree and exited
\* non-zero, and one that could not be spawned, two attempts are counted and
\* no verification has run.
C13_Witness ==
    /\ pc = "Attempting"
    /\ attempts = 2
    /\ Len(previous_errors) = 2
    /\ previous_errors[1] = AgentError("Agent exited with status")
    /\ previous_errors[2] = AgentError("Failed to spawn agent command")
    /\ tree # pre_tree
    /\ agent_runs = 1
    /\ verify_runs = 0
    /\ final_confidence = DefaultConfidence

\* ------------------------------------------------------------------------
\* C14
\* ------------------------------------------------------------------------

\* The state of the run, the verification being a part of Attempting.
Phase == IF pc = "Verifying" THEN "Attempting" ELSE pc

\* The position of a state in Idle, DirtyCheck, Detached, Attempting, Terminal.
PhaseRank(ph) ==
    CASE ph = "Idle" -> 0 [] ph = "DirtyCheck" -> 1 [] ph = "Detached" -> 2
      [] ph = "Attempting" -> 3 [] OTHER -> 4

\* The run ended Reverted: it reported failure after the reset and the checkout back.
EndedReverted == ReturnedOk /\ ~result.success /\ resets = 1 /\ head = "main"

\* The run ended Success: it reported success from the detached checkout.
EndedSuccess == ReturnedOk /\ result.success /\ resets = 0 /\ head = "detached"

C15_PromptCarriesHistory ==
    /\ [](/\ \A k \in 1..Len(prompts) :
                /\ k - 1 <= Len(previous_errors)
                /\ prompts[k].error_lines = SubSeq(previous_errors, 1, k - 1)
                /\ prompts[k].error_section <=> k > 1
          /\ Len(previous_errors) = attempts
          /\ Len(prompts) \in {attempts, attempts + 1}
          /\ pc = "Detached" => (previous_errors = <<>> /\ prompts = <<>>)
          /\ ReturnedOk =>
                /\ result.errors = previous_errors
                /\ Len(result.errors) = IF result.success THEN Len(prompts) - 1 ELSE Len(prompts))
    /\ [][\/ previous_errors' = previous_errors
          \/ /\ Len(previous_errors') = Len(previous_errors) + 1
             /\ SubSeq(previous_errors', 1, Len(previous_errors)) = previous_errors
             /\ Len(prompts') = Len(previous_errors')
       ]_vars

\* C15 witness: a run whose first iteration failed in the agent and whose
\* second failed in verification returned both errors in that order, and
\* its second prompt held the first error.
C15_Witness ==
    /\ ReturnedOk
    /\ Len(prompts) = 2
    /\ ~prompts[1].error_section
    /\ prompts[2].error_section
    /\ prompts[2].error_lines = <<AgentError("Agent exited with status")>>
    /\ Len(result.errors) = 2
    /\ result.errors[1] = AgentError("Agent exited with status")
    /\ result.errors[2].kind = "Verification Failed"

\* ------------------------------------------------------------------------
\* C16
\* ------------------------------------------------------------------------

\* The causes a verification error has when it comes from the visual check.
VisualCauses ==
    {"Failed to execute playwright script", "Playwright screenshot capture failed",
     "actual.png was not created", "Golden image not found", "Failed to decode image",
     "Visual Verification Failed"}

\* The causes of the verification errors recorded so far.
VerificationCauses ==
    {previous_errors[i].cause : i \in {j \in 1..Len(previous_errors) :
                                          previous_errors[j].kind = "Verification Failed"}}

\* C16: an empty verification command passes the shell check (no error of
\* the shell check is ever recorded, and without a golden image verification
\* always passes); a command that exits non-zero fails the verification with
\* an error that carries its captured stdout and stderr, and then no visual
\* check runs; a visual check's error is recorded only when a golden image is
\* configured.
C16_VerifySteps ==
    LET shell == CommandFailed(CommandOutput.stdout, CommandOutput.stderr)
    IN  /\ VerificationCauses \subseteq VisualCauses \cup {shell}
        /\ ticket.command = "" => shell \notin VerificationCauses
        /\ (ticket.command = "" /\ ticket.golden_image = None) =>
              (VerificationCauses = {} /\ (verify_runs >= 1 => pc = "Terminal" /\ success))
        /\ (ticket.command # "" /\ command_exit = "nonzero") =>
              /\ VerificationCauses \subseteq {shell}
              /\ verify_runs >= 1 => shell \in VerificationCauses
              /\ ~success
        /\ (ticket.command # "" /\ command_exit = "zero") => shell \notin VerificationCauses
        /\ ticket.golden_image = None => VerificationCauses \cap VisualCauses = {}

\* C16 witness: with a golden image configured, one verification failed in
\* the shell check, with the command's output in its error, and a later one
\* passed the shell check and failed in the visual check.
C16_Witness ==
    /\ ticket.golden_image # None
    /\ Len(previous_errors) = 2
    /\ previous_errors[1] = VerificationError(
          "Command Failed:\nSTDOUT:\n1 test failed\nSTDERR:\nerror[E0308]")
    /\ previous_errors[2] = VerificationError("Visual Verification Failed")

\* ------------------------------------------------------------------------
\* Reference definitions for the graph build
\* ------------------------------------------------------------------------

\* The paths build discovers: the walked files with no ignored component.
Discovered == {DiscoverFiles[i].rel_path : i \in 1..Len(DiscoverFiles)}

\* The edges of the graph as pairs of paths.
EdgePaths ==
    {<<graph.nodes[graph.edges[i][1]].path, graph.nodes[graph.edges[i][2]].path>> :
        i \in 1..Len(graph.edges)}

\* The workspace with every unreadable file replaced by a readable file
\* without imports.
ReadableWithoutImports ==
    [f \in WalkPaths |-> IF workspace[f].readable THEN workspace[f]
                         ELSE Content(TRUE, TRUE, <<>>)]

\* ------------------------------------------------------------------------
\* C17
\* ------------------------------------------------------------------------

\* C17: after any build, every edge of the graph has both endpoints present
\* as nodes that the path-to-index map points at, node paths are unique (the
\* map and the node list describe each other), and there is at most one edge
\* per ordered pair of nodes, also when a file imports one target through
\* several specifiers.
C17_GraphWellFormed ==
    /\ \A i \in 1..Len(graph.edges) :
          \A k \in 1..2 :
              /\ graph.edges[i][k] \in 1..Len(graph.nodes)
              /\ graph.nodes[graph.edges[i][k]].path \in DOMAIN node_index
              /\ node_index[graph.nodes[graph.edges[i][k]].path] = graph.edges[i][k]
    /\ \A i, j \in 1..Len(graph.nodes) :
          graph.nodes[i].path = graph.nodes[j].path => i = j
    /\ DOMAIN node_index = {graph.nodes[i].path : i \in 1..Len(graph.nodes)}
    /\ \A p \in DOMAIN node_index : graph.nodes[node_index[p]].path = p
    /\ \A i, j \in 1..Len(graph.edges) : graph.edges[i] = graph.edges[j] => i = j

\* C17 witness: a TypeScript file and a Rust file that each import one
\* target through two specifiers have been built, twice, and their edges are
\* in the graph.
C17_Witness ==
    /\ builds = 2
    /\ workspace["src/a.ts"] = Content(TRUE, TRUE, << <<"@", "b">>, <<"@", "b.ts">> >>)
    /\ workspace["src/m.rs"] = Content(TRUE, TRUE, << <<"n">>, <<"crate", "n">> >>)
    /\ <<"src/a.ts", "src/b.ts">> \in EdgePaths
    /\ <<"src/m.rs", "src/n.rs">> \in EdgePaths

\* ------------------------------------------------------------------------
\* C18
\* ------------------------------------------------------------------------

\* C18: build is idempotent: a second build on the same DependencyGraph over
\* the unchanged workspace leaves the nodes, the path-to-index map and the
\* edges exactly as the first build left them.
C18_BuildIdempotent ==
    [][(builds >= 1 /\ builds' = builds + 1 /\ workspace' = workspace) =>
          (graph' = graph /\ node_index' = node_index)]_vars

\* C18 witness: a graph with a cycle, a self-loop and an unreadable file has
\* been built twice.
C18_Witness ==
    /\ builds = 2
    /\ <<"src/m.rs", "src/n.rs">> \in EdgePaths
    /\ <<"src/n.rs", "src/m.rs">> \in EdgePaths
    /\ <<"src/a.ts", "src/a.ts">> \in EdgePaths
    /\ ~workspace["src/b.ts"].readable
    /\ Len(graph.nodes) = Cardinality(Discovered)

\* ------------------------------------------------------------------------
\* C19
\* ------------------------------------------------------------------------

\* C19: a file whose content cannot be read does not abort the build: after
\* a build every discovered file is a node, an unreadable file has no
\* outgoing edge, and the graph is the one the build yields when every
\* unreadable file is readable and has no imports.
C19_UnreadableFileSkipped ==
    builds >= 1 =>
        /\ DOMAIN node_index = Discovered
        /\ \A e \in EdgePaths : workspace[e[1]].readable
        /\ LET g == BuildOf(EmptyGraph, ReadableWithoutImports)
           IN  /\ graph = [nodes |-> g.nodes, edges |-> g.edges]
               /\ node_index = g.index

\* C19 witness: the first analysed source file is unreadable although its
\* text holds an import, and the files analysed after it got their edges.
C19_Witness ==
    /\ builds >= 1
    /\ workspace["src/a.ts"] = Content(FALSE, TRUE, << <<"@", "b">> >>)
    /\ "src/a.ts" \in DOMAIN node_index
    /\ "logo.png" \in DOMAIN node_index
    /\ <<"src/b.ts", "src/a.ts">> \in EdgePaths
    /\ <<"src/m.rs", "src/n.rs">> \in EdgePaths

\* ------------------------------------------------------------------------
\* C20
\* ------------------------------------------------------------------------

\* The position of a path in String::cmp order.
PathRank(p) == CHOOSE i \in 1..Len(PathOrder) : PathOrder[i] = p

\* C20: the output of get_context has exactly one entry per visited node
\* whose file can be read, no path twice, also with duplicate seeds or a node
\* reached along several paths, and its entries are in strictly ascending
\* order of path.
C20_OneEntryPerNodeSorted ==
    queried =>
        /\ Reported = {p \in DOMAIN visited : p \notin Unreadable}
        /\ Len(results) = Cardinality(Reported)
        /\ \A i, j \in 1..Len(results) : results[i][1] = results[j][1] => i = j
        /\ \A i \in 1..Len(results) - 1 :
              PathRank(results[i][1]) < PathRank(results[i + 1][1])

\* C20 witness: the same seed was given twice, a node was reached from two
\* visited nodes, and three entries were returned.
C20_Witness ==
    /\ queried
    /\ Len(entry_files) = 2
    /\ entry_files[1] = entry_files[2]
    /\ \E n \in Reported, p, q \in DOMAIN visited :
          p # q /\ p # n /\ q # n /\ <<p, n>> \in edges /\ <<q, n>> \in edges
    /\ Len(results) = 3

\* ------------------------------------------------------------------------
\* C21: get_context with an empty seed list returns an empty list, whatever
\* the graph: nothing is visited and no entry is produced.
\* ------------------------------------------------------------------------
C21_EmptySeedsEmptyResult ==
    (queried /\ entry_files = <<>>) => (results = <<>> /\ DOMAIN visited = {})

\* get_context was called with no seed on a graph that has MaxEdges edges,
\* one of them leaving the first scanned path.
C21_Witness ==
    /\ queried
    /\ entry_files = <<>>
    /\ Cardinality(edges) = MaxEdges
    /\ \E e \in edges : e[1] = PathOrder[1]
    /\ results = <<>>

\* ------------------------------------------------------------------------
\* C22
\* ------------------------------------------------------------------------

\* The skeleton of a text: the block after a function head is the function
\* placeholder, the block after a class head is the class placeholder, and
\* every other lexeme is the text's own, in its place.
Skeleton(text) ==
    [i \in 1..Len(text) |->
        IF i > 1 /\ text[i - 1].t = "function_head" /\ text[i].t \in FunctionBodies
        THEN BodyPruned[1]
        ELSE IF i > 1 /\ text[i - 1].t = "class_head" /\ text[i].t \in ClassBodies
        THEN ClassMembersPruned[1]
        ELSE text[i]]

\* The text is well-formed in the dialect of the file it was read from.
WellFormed(path, text) == ~Parse(text, SourceType_from_path(path)).errors

\* C22 (as stated): degrading the content of a TypeScript file replaces the
\* body of every top-level function declaration and the member list of
\* every top-level class declaration by its placeholder, and keeps the text
\* before the body and every other statement as it is, in source order.
C22_Original ==
    (degraded.done /\ EndsWithTs(src_path) /\ WellFormed(src_path, src_text))
        => degraded.is = Skeleton(src_text)

\* ------------------------------------------------------------------------
\* C23
\* ------------------------------------------------------------------------

\* No function or class body remains: every body is its placeholder.
AlreadyDegraded(text) ==
    \A i \in 2..Len(text) :
        /\ (text[i - 1].t = "function_head" /\ text[i].t \in FunctionBodies)
              => text[i] = BodyPruned[1]
        /\ (text[i - 1].t = "class_head" /\ text[i].t \in ClassBodies)
              => text[i] = ClassMembersPruned[1]

\* C23: degrading TypeScript content in which every body is already the
\* placeholder returns it as it is, and degrading a degraded text returns
\* the degraded text.
C23_DegradeIdempotent ==
    /\ (degraded.done /\ EndsWithTs(src_path) /\ AlreadyDegraded(src_text))
          => degraded.is = src_text
    /\ (degraded_twice.done /\ EndsWithTs(src_path))
          => degraded_twice.is = degraded.is

\* A text with a function body and a class body was degraded twice: the
\* first result differs from the text and the second is the first.
C23_Witness ==
    /\ degraded_twice.done
    /\ EndsWithTs(src_path)
    /\ \E i \in 1..Len(src_text) : src_text[i].t = "block_statements"
    /\ \E i \in 1..Len(src_text) : src_text[i].t = "block_members"
    /\ degraded.is # src_text
    /\ AlreadyDegraded(degraded.is)
    /\ degraded_twice.is = degraded.is

\* ------------------------------------------------------------------------
\* C24
\* ------------------------------------------------------------------------

\* C24: for a file that is no TypeScript file (a .rs file included) the
\* degraded content is the first 50 lines of the file followed by the
\* "(pruned)" marker, and no line beyond the 50th is in it.
C24_FirstFiftyLinesAndMarker ==
    (degraded.done /\ ~EndsWithTs(src_path)) =>
        LET n    == Len(src_text)
            kept == IF n <= 50 THEN n ELSE 50
        IN  /\ Len(degraded.is) = kept + 1
            /\ \A i \in 1..kept : degraded.is[i] = src_text[i]
            /\ degraded.is[kept + 1] = Tok("line", <<"... (pruned)">>)
            /\ \A j \in 51..n : \A i \in 1..Len(degraded.is) : degraded.is[i] # src_text[j]

\* A .rs file of more than 50 lines was degraded to 50 lines and the marker.
C24_Witness ==
    /\ degraded.done
    /\ src_path = "c.rs"
    /\ Len(src_text) = 50 + MaxExtraLines
    /\ Len(degraded.is) = 51
    /\ degraded.is[50] = src_text[50]

\* ------------------------------------------------------------------------
\* C25
\* ------------------------------------------------------------------------

\* The graph build() makes of a workspace in which the file at rel_path
\* holds the text and every other file is readable and imports nothing.
BuiltWith(rel_path, text) ==
    BuildOf(EmptyGraph,
            [f \in WalkPaths |-> IF f = rel_path THEN [readable |-> TRUE, text |-> text]
                                 ELSE Content(TRUE, TRUE, <<>>)])

\* The file of the build's workspace (a .ts file or a .rs file) the text
\* is put in.
BuildPath(path) == IF EndsWithTs(path) THEN "src/a.ts" ELSE "src/m.rs"

\* The text has a syntax error for the parser of its file's type.
SyntaxError(path, text) ==
    IF EndsWithTs(path) THEN Parse(text, SourceType_from_path(path)).errors
    ELSE \E i \in 1..Len(text) : text[i].t = "junk"

\* C25: a parse error is never propagated.  Import extraction of a
\* TypeScript or Rust file with a syntax error yields the empty list, so
\* that the file is a node of the built graph with no outgoing edge; and
\* degrading TypeScript content that fails to parse returns the content.
C25_ParseErrorsNotPropagated ==
    /\ (extracted.done /\ (EndsWithTs(src_path) \/ EndsWithRs(src_path))
            /\ SyntaxError(src_path, src_text))
          => /\ extracted.is = <<>>
             /\ SyntaxError(BuildPath(src_path), src_text) =>
                    LET g == BuiltWith(BuildPath(src_path), src_text)
                    IN  /\ BuildPath(src_path) \in DOMAIN g.index
                        /\ \A e \in 1..Len(g.edges) :
                               g.edges[e][1] # g.index[BuildPath(src_path)]
    /\ (degraded.done /\ EndsWithTs(src_path)
            /\ Parse(src_text, SourceType_from_path("dummy.tsx")).errors)
          => degraded.is = src_text

\* A TypeScript text with an import that resolves, a function body and a
\* stray brace: no import was extracted and the degraded text is the text.
C25_Witness ==
    /\ extracted.done
    /\ degraded.done
    /\ src_path = "a.ts"
    /\ \E i \in 1..Len(src_text) : src_text[i] = Tok("export_from", <<"@", "b">>)
    /\ \E i \in 1..Len(src_text) : src_text[i].t = "junk"
    /\ extracted.is = <<>>
    /\ degraded.is = src_text

\* ------------------------------------------------------------------------
\* C26
\* ------------------------------------------------------------------------

\* The largest sample of an image's depth.
MaxSample(img) == IF img.bits = 8 THEN 255 ELSE 65535

\* The two images have the same colour in a channel of a pixel: the
\* samples are the same fraction of their depths' largest sample.
SameSample(img1, img2, xy, c) ==
    img1.px[xy][c] * MaxSample(img2) = img2.px[xy][c] * MaxSample(img1)

SameDimensions == <<img_golden.width, img_golden.height>> = <<img_actual.width, img_actual.height>>

\* C26 (as stated): when golden and actual image have the same dimensions
\* and are the same in every channel of every pixel the report says
\* diff_detected = false, mismatch_percentage = 0.0 and diff_bounds = None;
\* and diff_detected is true whenever a pixel differs in a channel.
C26_Original ==
    (visual.returned = "ok" /\ SameDimensions) =>
        LET same == \A xy \in DOMAIN img_golden.px : \A c \in 1..4 :
                        SameSample(img_golden, img_actual, xy, c)
        IN  /\ same => /\ ~visual.diff_detected
                       /\ visual.mismatch_percentage.num = 0
                       /\ visual.diff_bounds = NoRect
            /\ ~same => visual.diff_detected

\* ------------------------------------------------------------------------
\* C27
\* ------------------------------------------------------------------------

\* The coordinates at which the comparison finds the two pixels unequal.
Mismatched ==
    {xy \in DOMAIN img_golden.px :
        \E c \in 1..4 : get_pixel(img_golden, xy[1], xy[2])[c] # get_pixel(img_actual, xy[1], xy[2])[c]}

\* C26: when golden and actual image have the same dimensions and are the
\* same in every channel of every pixel as 8-bit RGBA, the form the
\* comparison reads them in, the report says diff_detected = false,
\* mismatch_percentage = 0.0 and diff_bounds = None; and diff_detected is
\* true whenever a pixel differs in a channel of that form.
C26_DiffIffPixelDiffers ==
    (visual.returned = "ok" /\ SameDimensions) =>
        /\ Mismatched = {} => /\ ~visual.diff_detected
                              /\ visual.mismatch_percentage.num = 0
                              /\ visual.diff_bounds = NoRect
                              /\ visual.reason = None
        /\ Mismatched # {} => visual.diff_detected

\* An image of the largest size was compared with an identical one, pixel
\* by pixel, and no difference was reported.
C26_Witness ==
    /\ visual.returned = "ok"
    /\ img_golden = img_actual
    /\ img_golden.width = MaxWidth /\ img_golden.height = MaxHeight
    /\ img_golden.px[<<0, 0>>][3] = 1
    /\ compared = MaxWidth * MaxHeight
    /\ ~visual.diff_detected

Least(S) == CHOOSE n \in S : \A m \in S : n <= m
Greatest(S) == CHOOSE n \in S : \A m \in S : n >= m

C28_DimensionMismatch ==
    (visual.returned = "ok" /\ ~SameDimensions) =>
        /\ visual.diff_detected
        /\ visual.mismatch_percentage.num = 100 * visual.mismatch_percentage.den
        /\ visual.diff_bounds = NoRect
        /\ visual.reason # None
        /\ compared = 0

\* A golden image wider and an actual image higher than the other were
\* reported as differing.
C28_Witness ==
    /\ visual.returned = "ok"
    /\ img_golden.width > img_actual.width
    /\ img_golden.height < img_actual.height
    /\ visual.diff_detected
    /\ compared = 0

\* ------------------------------------------------------------------------
\* C29
\* ------------------------------------------------------------------------

\* C29 (as stated): a verify request for a ticket whose command exits
\* non-zero after it wrote actual.png and diff.png into the workspace root,
\* with a configured golden image that exists, is answered with 200,
\* success = false and artifacts_path = /artifacts/<id>, and afterwards
\* golden.png, actual.png and diff.png are under target/public/artifacts/<id>.
C29_Original ==
    (/\ srv_request.id = "T-TEST"
     /\ TicketPath("T-TEST") \in srv_files
     /\ srv_ticket.state = "ok"
     /\ srv_ticket.command = "run"
     /\ srv_ticket.golden_image = "tests/snapshots/test.png"
     /\ "tests/snapshots/test.png" \in srv_files
     /\ srv_request.run.spawns
     /\ ~srv_request.run.exit_zero
     /\ {"actual.png", "diff.png"} \subseteq srv_request.run.writes)
    => /\ srv_response = OkResponse(FALSE, "T-TEST")
       /\ {target_artifact_dir("T-TEST") \o "/golden.png",
           target_artifact_dir("T-TEST") \o "/actual.png",
           target_artifact_dir("T-TEST") \o "/diff.png"} \subseteq srv_files

\* ------------------------------------------------------------------------
\* C30
\* ------------------------------------------------------------------------

\* C30: two ticket executions never run at once against the worker's
\* checkout, whatever the pool size: process_ticket runs for at most one
\* ticket, run polls and sleeps only while it runs for none, and a ticket
\* is taken into work only when none is in work.
C30_OneTicketAtATime ==
    /\ [](/\ Cardinality(Active) <= 1
          /\ w_run \in {"poll", "sleep"} => Active = {}
          /\ w_run = "await" => Cardinality(Active) = 1)
    /\ [][\A t \in TicketIds :
             (w_step[t] = "idle" /\ w_step'[t] # "idle") => (Active = {} /\ w_run = "poll")]_vars

\* A worker with the largest pool size has finished the first ticket and
\* is in the execution loop of the second.
C30_Witness ==
    /\ w_pool_size = MaxPool
    /\ w_returned["T-1"] = "ok"
    /\ w_status["T-1"] = "review"
    /\ "T-1" \in w_prs
    /\ w_step["T-2"] = "loop"
    /\ w_run = "await"

\* ------------------------------------------------------------------------
\* C31
\* ------------------------------------------------------------------------

\* The paths of the prompt's context section.
ContextPaths == {p_context[i][1] : i \in 1..Len(p_context)}

\* The seeds of the one policy: the explicit list, or the discovered list
\* when the explicit list is empty.
PolicySeeds ==
    IF p_spec.relevant_files # <<>> THEN p_spec.relevant_files ELSE p_discovered

\* C31 (as stated): heuristic discovery contributes to the prompt's context
\* only when the explicit seed list is empty, and in every case the context
\* of the prompt is the hop-pruned result of get_context on the seeds
\* (distance-2 files degraded, farther files left out).
C31_Original ==
    p_called = "prompt" =>
        p_context = ResultsOf(VisitedOf(edges, FALSE, PolicySeeds), Unreadable)

\* ------------------------------------------------------------------------
\* C32
\* ------------------------------------------------------------------------

\* The place of a path in the discovered list.
PlaceOf(p) == CHOOSE i \in 1..Len(p_discovered) : p_discovered[i] = p

\* C32 (as stated): in the list discover_context returns, every file with a
\* token in its name precedes every file with tokens in its content only,
\* for every number of tokens.
C32_Original ==
    p_called # "none" =>
        \A p, q \in {p_discovered[i] : i \in 1..Len(p_discovered)} :
            (p_matches[p].name > 0 /\ p_matches[q].name = 0) => PlaceOf(p) < PlaceOf(q)

\* ------------------------------------------------------------------------
\* C33
\* ------------------------------------------------------------------------

\* The specifiers the parser extracts from a file of the workspace.
ImportsOf(f) == parse_ts_imports(f, workspace[f].text)

\* C33 (as stated): a relative specifier resolves against the referencing
\* file's parent directory: after a build, a readable src/a.ts that imports
\* './b' has an edge to the node src/b.ts.
C33_Original ==
    (/\ builds >= 1
     /\ workspace["src/a.ts"].readable
     /\ \E i \in 1..Len(ImportsOf("src/a.ts")) : ImportsOf("src/a.ts")[i] = <<".", "b">>
     /\ "src/b.ts" \in DOMAIN node_index)
        => <<"src/a.ts", "src/b.ts">> \in EdgePaths

\* ------------------------------------------------------------------------
\* C34
\* ------------------------------------------------------------------------

\* The candidate bases of a specifier, in order: for an alias specifier the
\* two alias roots with the rest of the specifier, for a relative one the
\* referencing file's directory joined with the specifier as written, and
\* none for any other specifier.
Bases(f, specifier) ==
    IF specifier[1] = "@" /\ Len(specifier) >= 2
    THEN <<"apps/director-plan/src/" \o PathString(Tail(specifier)),
           "src/" \o PathString(Tail(specifier))>>
    ELSE IF specifier[1] \in {".", ".."}
    THEN <<PathString(Parent(Components(f)) \o specifier)>>
    ELSE <<>>

\* The rank of what is tried for a specifier: the base's place first, then
\* exact (0), extension (1..5), index file (6..10).
TryRank(base, kind, ext) == (base * 100) + (kind * 10) + ext

\* Every path tried for a specifier of file f, with its rank.
TriesOf(f, specifier) ==
    LET bases == Bases(f, specifier)
    IN  UNION {{[path |-> bases[b], rank |-> TryRank(b, 0, 0)]}
                 \cup {[path |-> bases[b] \o "." \o extensions[e], rank |-> TryRank(b, 1, e)] :
                          e \in 1..Len(extensions)}
                 \cup {[path |-> bases[b] \o "/index." \o extensions[e], rank |-> TryRank(b, 2, e)] :
                          e \in 1..Len(extensions)} :
               b \in 1..Len(bases)}

\* The targets the specifiers of file f resolve to: per specifier, the
\* tried path of least rank among those that are nodes.
TargetsOf(f) ==
    {t.path : t \in UNION {{t \in TriesOf(f, ImportsOf(f)[i]) :
                              /\ t.path \in DOMAIN node_index
                              /\ \A u \in TriesOf(f, ImportsOf(f)[i]) :
                                     u.path \in DOMAIN node_index => t.rank <= u.rank} :
                           i \in 1..Len(ImportsOf(f))}}

\* The TypeScript files build analyses: discovered and readable.
AnalysedTs ==
    {DiscoverFiles[i].rel_path : i \in {j \in 1..Len(DiscoverFiles) :
        /\ DiscoverFiles[j].file_type = "TypeScript"
        /\ workspace[DiscoverFiles[j].rel_path].readable}}

\* C34: for each candidate base in order, resolution tries the exact path,
\* then the path with each extension in list order, then the path's index
\* file with each extension, and the first try that is a node wins: after a
\* build the edges out of every analysed TypeScript file lead exactly to
\* these targets; a specifier with no try among the nodes (every bare
\* package name) adds no edge, and the build ends with every file a node.
C34_FirstCandidateWins ==
    builds >= 1 =>
        /\ DOMAIN node_index = Discovered
        /\ \A f \in AnalysedTs : {e[2] : e \in {d \in EdgePaths : d[1] = f}} = TargetsOf(f)

\* C34 witness: src/a.ts imports '@/c', found as the first alias root's
\* index file although src/c.ts exists; src/b.ts imports '@/a', found as
\* src/a.ts although src/a/index.ts exists, and 'react', which adds no edge.
C34_Witness ==
    /\ builds >= 1
    /\ workspace["src/a.ts"] = Content(TRUE, TRUE, << <<"@", "c">> >>)
    /\ workspace["src/b.ts"] = Content(TRUE, TRUE, << <<"@", "a">>, <<"react">> >>)
    /\ {e \in EdgePaths : e[1] = "src/a.ts"} = {<<"src/a.ts", "apps/director-plan/src/c/index.ts">>}
    /\ {e \in EdgePaths : e[1] = "src/b.ts"} = {<<"src/b.ts", "src/a.ts">>}
    /\ {"src/c.ts", "src/a/index.ts"} \subseteq DOMAIN node_index

\* ------------------------------------------------------------------------
\* C35
\* ------------------------------------------------------------------------

\* The module paths the parser extracts from a Rust file of the workspace.
UsesOf(f) == parse_rs_imports(workspace[f].text)

\* The nearest ancestor of a directory (the directory included) that is
\* named "src", or the empty path when there is none.
ModuleRoot(dir) ==
    LET at == {k \in 1..Len(dir) : dir[k] = "src"}
    IN  IF at = {} THEN <<>> ELSE SubSeq(dir, 1, CHOOSE k \in at : \A j \in at : j <= k)

\* What a module path used in file f resolves to, as a set: the sibling
\* file, else the directory's mod.rs, else (for a crate path) the file the
\* remaining segments name under the module root; empty when none is a node.
RsTargetOf(f, module_path) ==
    LET dir     == Parent(Components(f))
        sibling == PathString(dir \o <<module_path[1] \o ".rs">>)
        module  == PathString(dir \o <<module_path[1], "mod.rs">>)
        rooted  == PathString(ModuleRoot(dir) \o Tail(module_path)) \o ".rs"
    IN  IF sibling \in DOMAIN node_index THEN {sibling}
        ELSE IF module \in DOMAIN node_index THEN {module}
        ELSE IF module_path[1] = "crate" /\ Len(module_path) >= 2 /\ rooted \in DOMAIN node_index
        THEN {rooted}
        ELSE {}

\* The Rust files build analyses: discovered and readable.
AnalysedRs ==
    {DiscoverFiles[i].rel_path : i \in {j \in 1..Len(DiscoverFiles) :
        /\ DiscoverFiles[j].file_type = "Rust"
        /\ workspace[DiscoverFiles[j].rel_path].readable}}

\* C35: a module path resolves to the sibling <segment>.rs, else to
\* <segment>/mod.rs, else, for a crate path, to the file its remaining
\* segments name under the nearest ancestor named src; the walk up ends also
\* without such an ancestor; an unresolved path adds no edge and the build
\* ends with every discovered file a node.
C35_RustResolution ==
    builds >= 1 =>
        /\ DOMAIN node_index = Discovered
        /\ \A f \in AnalysedRs :
              {e[2] : e \in {d \in EdgePaths : d[1] = f}}
                  = UNION {RsTargetOf(f, UsesOf(f)[i]) : i \in 1..Len(UsesOf(f))}

\* C35 witness: `n` resolved to the sibling although src/n/mod.rs exists,
\* `k` to k/mod.rs, crate paths from src and from a directory below src to
\* files under src, `std::fs` to nothing, and the crate path of a file with
\* no src ancestor to nothing.
C35_Witness ==
    /\ builds >= 1
    /\ workspace["src/m.rs"] = Content(TRUE, TRUE, << <<"n">>, <<"crate", "n">> >>)
    /\ workspace["src/n.rs"] = Content(TRUE, TRUE, << <<"m">>, <<"std", "fs">> >>)
    /\ {e \in EdgePaths : e[1] = "src/m.rs"} = {<<"src/m.rs", "src/n.rs">>}
    /\ {e \in EdgePaths : e[1] = "src/n.rs"} = {<<"src/n.rs", "src/m.rs">>}
    /\ {e \in EdgePaths : e[1] = "src/n/mod.rs"} = {<<"src/n/mod.rs", "src/m.rs">>}
    /\ {e \in EdgePaths : e[1] = "tools/t.rs"} = {<<"tools/t.rs", "tools/k/mod.rs">>}

\* ------------------------------------------------------------------------
\* C36
\* ------------------------------------------------------------------------

\* The specifiers a TypeScript text names at its top level, in source
\* order: those of its import declarations (`import .. from 's'`), its
\* re-export-all declarations (`export * from 's'`) and its named
\* re-exports with a source (`export { x } from 's'`).
SourcesIn(text) ==
    LET naming == SelectSeq(text, LAMBDA k : k.t \in {"import", "export_all", "export_from"})
    IN  [i \in 1..Len(naming) |-> naming[i].s]

\* C36: import extraction of a TypeScript file that parses returns exactly
\* the specifiers of its top-level import declarations, re-export-all
\* declarations and named re-exports that carry a source, in source order,
\* bare package names included, and nothing for any other statement.
C36_ExtractsSources ==
    (extracted.done /\ EndsWithTs(src_path) /\ ~SyntaxError(src_path, src_text))
        => extracted.is = SourcesIn(src_text)

\* C36 witness: a named re-export from an alias path followed by a
\* re-export-all from a bare package name, extracted in that order.
C36_Witness ==
    /\ extracted.done
    /\ src_path = "v.tsx"
    /\ src_text = <<Tok("export_from", <<"@", "b">>), Tok("export_all", <<"react">>)>>
    /\ extracted.is = << <<"@", "b">>, <<"react">> >>

\* ------------------------------------------------------------------------
\* C37
\* ------------------------------------------------------------------------

\* C37 (as stated): the worker submits a pull request for a ticket only if
\* the execution result reports success and its confidence is at least the
\* ticket's minimum confidence; a run that ended reverted never leads to a
\* pull request.
C37_Original ==
    \A t \in TicketIds :
        w_step[t] \in {"mark", "reset"} =>
            (w_result.success /\ w_result.confidence >= w_min[t])

\* ------------------------------------------------------------------------
\* C38
\* ------------------------------------------------------------------------

\* C38 (as stated): when ticket files are under version control and the
\* checkout was clean when process_ticket began, the claim step's write of
\* the ticket file does not make the execution loop's dirty check fail.
C38_Original ==
    \A t \in TicketIds :
        (~w_ignored /\ w_path[t].clean_start) => w_path[t].exit # "loop_dirty"

\* ------------------------------------------------------------------------
\* C39
\* ------------------------------------------------------------------------

\* C39 (as stated): whenever process_ticket has returned after claiming the
\* ticket, on every path, the status saved in the ticket file is Review.
C39_Original ==
    \A t \in TicketIds :
        (w_step[t] = "idle" /\ w_path[t].exit \notin {"none", "claim_failed"})
            => w_status[t] = "review"

\* ------------------------------------------------------------------------
\* C40
\* ------------------------------------------------------------------------

\* The seed lists contained in a seed list: its entries at any set of its
\* positions, in the list's order.
SubLists(seeds) ==
    {[i \in 1..Cardinality(keep) |->
          seeds[CHOOSE k \in keep : Cardinality({j \in keep : j < k}) = i - 1]] :
        keep \in SUBSET (1..Len(seeds))}

\* C40: get_context is monotone in its seed list: for every seed list
\* contained in the queried one, every path returned for the smaller list is
\* returned for the queried list, and a path that carries its full content
\* for the smaller list carries its full content for the queried list.
C40_MonotoneInSeeds ==
    queried =>
        \A S \in SubLists(entry_files) :
            LET smaller == ResultsOf(VisitedOf(edges, FALSE, S), Unreadable)
            IN  \A i \in 1..Len(smaller) :
                    /\ smaller[i][1] \in Reported
                    /\ smaller[i][2] = FileContent(smaller[i][1])
                          => ContentOf(smaller[i][1]) = FileContent(smaller[i][1])

\* C40 witness: the query for c.rs and a.ts over a.ts -> b.ts -> c.rs
\* returns a.ts and b.ts, which the query for c.rs alone does not, and c.rs
\* in full, which the query for a.ts alone returns degraded.
C40_Witness ==
    /\ queried
    /\ entry_files = <<"c.rs", "a.ts">>
    /\ edges = {<<"a.ts", "b.ts">>, <<"b.ts", "c.rs">>}
    /\ Reported = {"a.ts", "b.ts", "c.rs"}
    /\ ContentOf("c.rs") = FileContent("c.rs")
    /\ ResultsOf(VisitedOf(edges, FALSE, <<"c.rs">>), Unreadable) = <<<<"c.rs", FileContent("c.rs")>>>>
    /\ ResultsOf(VisitedOf(edges, FALSE, <<"a.ts">>), Unreadable)[3]
          = <<"c.rs", prune_content("c.rs", FileContent("c.rs"))>>
    /\ prune_content("c.rs", FileContent("c.rs")) # FileContent("c.rs")

====
